---- MODULE Spec2Model ----
(***************************************************************************)
(* Agentic tool-orchestration core of the Geo_Cortex assistant:            *)
(* run_agent (the JSON tool loop, in the two versions the repository       *)
(* carries) and run_workflow (plan / execute / summarise).                 *)
(*                                                                         *)
(*   variant = "backend" : src/Backend/Geo_Cortex/Geo_Cortex_Assistant     *)
(*   variant = "geo"     : src/Geo_Cortex/Geo_Cortex_Assistant             *)
(*                                                                         *)
(* An LLM text is a sequence of tokens; a token is a prose word, a brace,  *)
(* a "key": value member of a JSON object, or the fixed prefix of one of   *)
(* the failure sentinels of llm_service.generate_response.                 *)
(***************************************************************************)
EXTENDS Integers, Sequences, FiniteSets, TLC

\* ------------------------------------------------------------------ bounds
\* largest max_steps a caller passes
MaxSteps == 2

\* ------------------------------------------------------------------ tokens
Tok(t, k, v) == [t |-> t, k |-> k, v |-> v]
LB == Tok("{", "", "")
RB == Tok("}", "", "")
W == Tok("word", "", "")
WS == Tok("space", "", "")
KV(k, v) == Tok("kv", k, v)
TIMED_OUT == Tok("LLM call timed out", "", "")
LLM_ERROR == Tok("LLM error", "", "")

\* str.startswith(prefix) for a one-token prefix
StartsWith(text, prefix) == Len(text) > 0 /\ text[1] = prefix

\* str.find / str.rfind: 0-based index of the first / last occurrence, -1 if none
Find(text, tok) ==
    IF \E i \in 1..Len(text) : text[i] = tok
    THEN (CHOOSE i \in 1..Len(text) : text[i] = tok /\ \A j \in 1..(i-1) : text[j] # tok) - 1
    ELSE -1

RFind(text, tok) ==
    IF \E i \in 1..Len(text) : text[i] = tok
    THEN (CHOOSE i \in 1..Len(text) : text[i] = tok /\ \A j \in (i+1)..Len(text) : text[j] # tok) - 1
    ELSE -1

\* text[start : end + 1] with 0-based start, end
Slice(text, start, end) == SubSeq(text, start + 1, end + 1)

\* ------------------------------------------------------------ JSON objects
JsonKeys == {"action", "args", "answer", "plan"}
NoObject == [ok |-> FALSE, keys |-> {}, val |-> [k \in JsonKeys |-> ""]]

\* json.loads of a token sequence: an object is '{' members '}' and nothing else;
\* a repeated key keeps its last value
JsonLoads(s) ==
    IF /\ Len(s) >= 2
       /\ s[1] = LB
       /\ s[Len(s)] = RB
       /\ \A i \in 2..(Len(s) - 1) : s[i].t = "kv" /\ s[i].k \in JsonKeys
    THEN [ok |-> TRUE,
          keys |-> {s[i].k : i \in 2..(Len(s) - 1)},
          val |-> [k \in JsonKeys |->
                     IF \E i \in 2..(Len(s) - 1) : s[i].k = k
                     THEN s[CHOOSE i \in 2..(Len(s) - 1) :
                              s[i].k = k /\ \A j \in (i+1)..(Len(s) - 1) : s[j].k # k].v
                     ELSE ""]]
    ELSE NoObject

\* _extract_json_object, geo version: first '{' through last '}', json.loads, None on failure
ExtractJsonObjectGeo(text) ==
    LET start == Find(text, LB)
        end == RFind(text, RB)
    IN IF start = -1 \/ end = -1 \/ end <= start
       THEN NoObject
       ELSE JsonLoads(Slice(text, start, end))

\* _extract_json_object, backend version: the function body stops after the index
\* check, so every path falls off the end and returns None
ExtractJsonObjectBackend(text) ==
    LET start == Find(text, LB)
        end == RFind(text, RB)
    IN IF start = -1 \/ end = -1 \/ end <= start
       THEN NoObject
       ELSE NoObject

_extract_json_object(v, text) ==
    IF v = "backend" THEN ExtractJsonObjectBackend(text) ELSE ExtractJsonObjectGeo(text)

\* _extract_json_object_loose (backend, used by the planner)
_extract_json_object_loose(text) ==
    IF Len(text) = 0 THEN NoObject
    ELSE LET start == Find(text, LB)
             end == RFind(text, RB)
         IN IF start = -1 \/ end = -1 \/ end <= start
            THEN NoObject
            ELSE JsonLoads(Slice(text, start, end))

\* `not action_obj`: None or the empty dict
Falsy(obj) == ~obj.ok \/ obj.keys = {}

\* sanitize_text returning its input: no redaction
SanitizeNothing(text) == text

\* sanitize_text: redacts token=... secrets, leaves the rest
sanitize_text(text) ==
    [i \in 1..Len(text) |-> IF text[i].t = "token=" THEN Tok("token=", "", "***") ELSE text[i]]

\* str.strip(): drops leading and trailing whitespace tokens
RECURSIVE LStrip(_)
LStrip(text) == IF Len(text) > 0 /\ text[1] = WS THEN LStrip(Tail(text)) ELSE text
RECURSIVE RStrip(_)
RStrip(text) ==
    IF Len(text) > 0 /\ text[Len(text)] = WS THEN RStrip(SubSeq(text, 1, Len(text) - 1)) ELSE text
Strip(text) == RStrip(LStrip(text))

\* --------------------------------------------------------- argument values
\* A JSON / Python value: None, an int, a float (held in tenths), a string, a list of
\* strings, or "absent" for a key the dict does not have.
Val(tag, n, s, l) == [tag |-> tag, n |-> n, s |-> s, l |-> l]
Absent == Val("absent", 0, "", <<>>)
None == Val("none", 0, "", <<>>)
IntV(n) == Val("int", n, "", <<>>)
FloatV(tenths) == Val("float", tenths, "", <<>>)
StrV(s) == Val("str", 0, s, <<>>)

ArgKeys == {"limit", "offset", "lat", "lon", "radius_km", "bin_km", "distance_m", "op",
            "region", "occurrence_type", "exploration_status",
            "min_lat", "max_lat", "min_lon", "max_lon", "geometry", "query", "commodity"}

\* args: a dict (kind "dict", f its items) or a JSON value that is not an object
EmptyDict == [kind |-> "dict", f |-> [k \in ArgKeys |-> Absent]]
NotADict == [kind |-> "list", f |-> [k \in ArgKeys |-> Absent]]
Dict(keys, g) == [kind |-> "dict", f |-> [k \in ArgKeys |-> IF k \in keys THEN g[k] ELSE Absent]]
Has(args, k) == args.f[k] # Absent
\* dict.get(k): None when the key is missing
Get(args, k) == IF Has(args, k) THEN args.f[k] ELSE None
Put(args, k, v) == [args EXCEPT !.f[k] = v]

\* numeric strings the model knows: int("5") = 5, float("5") = 5.0
NumStr == [s \in {"5", "999", "-5"} |-> CASE s = "5" -> 5 [] s = "999" -> 999 [] s = "-5" -> 0 - 5]
\* str.strip() on the strings the model knows
StripStr(s) ==
    CASE s = " Riyadh Region " -> "Riyadh Region"
      [] s = "  " -> ""
      [] s = " Occurrences " -> "Occurrences"
      [] OTHER -> s
\* str.lower()
LowerStr(s) ==
    CASE s = "Occurrences" -> "occurrences"
      [] s = "ALL" -> "all"
      [] s = "Metallic" -> "metallic"
      [] s = "Riyadh Region" -> "riyadh region"
      [] OTHER -> s
\* ", ".join(parts) on the lists the model knows
JoinComma(l) ==
    CASE Len(l) = 0 -> ""
      [] Len(l) = 1 -> l[1]
      [] l = <<"Makkah Region", "Riyadh Region">> -> "Makkah Region, Riyadh Region"
      [] OTHER -> "joined"

Max(a, b) == IF a >= b THEN a ELSE b
Min(a, b) == IF a <= b THEN a ELSE b
\* integer division truncating toward zero, as int(float) does
Trunc10(t) == IF t >= 0 THEN t \div 10 ELSE 0 - ((0 - t) \div 10)

\* int(v): [ok, n]
PyInt(v) ==
    CASE v.tag = "int" -> [ok |-> TRUE, n |-> v.n]
      [] v.tag = "float" -> [ok |-> TRUE, n |-> Trunc10(v.n)]
      [] v.tag = "str" /\ v.s \in DOMAIN NumStr -> [ok |-> TRUE, n |-> NumStr[v.s]]
      [] OTHER -> [ok |-> FALSE, n |-> 0]
\* float(v), in tenths: [ok, n]
PyFloat(v) ==
    CASE v.tag = "int" -> [ok |-> TRUE, n |-> 10 * v.n]
      [] v.tag = "float" -> [ok |-> TRUE, n |-> v.n]
      [] v.tag = "str" /\ v.s \in DOMAIN NumStr -> [ok |-> TRUE, n |-> 10 * NumStr[v.s]]
      [] OTHER -> [ok |-> FALSE, n |-> 0]

_IGNORE_OCCURRENCE_TYPE_VALUES == {"occurrence", "occurrences", "all", "any", "none", "null"}

\* _normalize_occurrence_type(value); a non-string value has no .strip() and raises
_normalize_occurrence_type(value) ==
    IF value.tag = "none" THEN None
    ELSE LET v == StripStr(value.s)
         IN IF v = "" THEN None
            ELSE IF LowerStr(v) \in _IGNORE_OCCURRENCE_TYPE_VALUES THEN None
            ELSE StrV(v)

_clamp_int(v, lo, hi, default) ==
    LET p == PyInt(v) IN IF ~p.ok THEN default ELSE Max(lo, Min(hi, p.n))

\* bounds and result in tenths
_clamp_float(v, lo, hi, default) ==
    LET p == PyFloat(v) IN IF ~p.ok THEN default ELSE Max(lo, Min(hi, p.n))

RECURSIVE StripParts(_)
StripParts(l) ==
    IF Len(l) = 0 THEN <<>>
    ELSE IF StripStr(Head(l)) # "" THEN <<StripStr(Head(l))>> \o StripParts(Tail(l))
    ELSE StripParts(Tail(l))

\* str(value) for the scalars the model knows
PyStr(value) ==
    CASE value.tag = "str" -> value.s
      [] value.tag = "int" /\ value.n = 5 -> "5"
      [] OTHER -> "repr"

_normalize_region_value(value) ==
    IF value.tag = "none" THEN None
    ELSE IF value.tag = "list"
         THEN LET parts == StripParts(value.l)
              IN IF Len(parts) > 0 THEN StrV(JoinComma(parts)) ELSE None
    ELSE LET s == StripStr(PyStr(value))
         IN IF s = "" THEN None ELSE StrV(s)

\* _validate_lat_lon: [ok, la, lo] (tenths of a degree); not ok stands for (None, None)
_validate_lat_lon(lat, lon) ==
    LET la == PyFloat(lat)
        lo == PyFloat(lon)
    IN IF ~la.ok \/ ~lo.ok THEN [ok |-> FALSE, la |-> 0, lo |-> 0]
       ELSE IF ~((0 - 900) <= la.n /\ la.n <= 900 /\ (0 - 1800) <= lo.n /\ lo.n <= 1800)
            THEN [ok |-> FALSE, la |-> 0, lo |-> 0]
       ELSE [ok |-> TRUE, la |-> la.n, lo |-> lo.n]

\* ------------------------------------------------------------- LLM outputs
\* argument objects an LLM reply can carry, by the id used inside the reply
ArgsOf(id) ==
    CASE id = "lim5" -> Dict({"limit"}, [k \in {"limit"} |-> IntV(5)])
      [] id = "lim999" -> Dict({"limit"}, [k \in {"limit"} |-> IntV(999)])
      [] id = "badlat" -> Dict({"lat", "lon", "radius_km"},
                               [k \in {"lat", "lon", "radius_km"} |->
                                  IF k = "lat" THEN IntV(200) ELSE IntV(46)])
      [] id = "list" -> NotADict
      [] id = "q1" -> Dict({"query"}, [k \in {"query"} |-> StrV("q1")])
      [] id = "q2" -> Dict({"query"}, [k \in {"query"} |-> StrV("q2")])
      [] OTHER -> EmptyDict

\* `action_obj.get("args") or {}`
ArgsOrEmpty(obj) == IF "args" \in obj.keys THEN ArgsOf(obj.val["args"]) ELSE EmptyDict

T_prose == <<W, W>>
T_secret == <<W, Tok("token=", "", "s3cr3t")>>
T_final == <<LB, KV("action", "final"), KV("answer", "T"), RB>>
T_broken == <<LB, W, RB>>
T_empty == <<>>
T_timeout == <<TIMED_OUT, W>>
T_error == <<LLM_ERROR, W>>
T_call(tool, id) == <<LB, KV("action", tool), KV("args", id), RB>>

\* tool calls the modelled LLM proposes
ProposedCalls ==
    {T_call(t, "lim5") : t \in {"search_mods", "heatmap_bins", "stats_by_type", "qc_summary", "bogus"}}
    \cup {T_call("heatmap_bins", "lim999"), T_call("stats_by_type", "lim999"),
          T_call("nearby_mods", "badlat"), T_call("search_mods", "list"),
          <<W>> \o T_call("search_mods", "lim999") \o <<W>>, T_call("rag", "q1"), T_call("rag", "q2")}

AgentTexts ==
    {T_prose, T_secret, T_empty, T_final, <<W>> \o T_final \o <<W>>,
     <<LB, KV("answer", "T"), RB>>, T_broken,
     T_timeout, T_error} \cup ProposedCalls

\* replies to a prompt that asks for prose (a summary); JSON in them is read as prose
ProseTexts == {T_prose, <<WS, W, WS>>, T_secret, T_empty, T_final, T_timeout, T_error}

\* deterministic answers are one token naming the template that produced them
Det(name) == <<Tok("det", name, "")>>
FOUND == Tok("Found occurrences", "", "")
SHOWING_FIRST == Tok("Showing the first", "", "")

\* ---------------------------------------------------------------- queries
\* An utterance is the set of keywords that occur in it as substrings.
\* queries sent to the workflow endpoint
WorkflowQueries ==
    {{"qc"},
     {"qc", "region", "heatmap"},
     {"quality", "commodity", "region", "importance", "density"},
     {"buffer", "closest", "clip"},
     {"dissolve", "name"},
     {"join", "count", "nearest"},
     {"overlay", "union"},
     {"buffer"},
     {"heatmap"},
     {}}

\* queries sent to the agent endpoint of each version
BackendQueries ==
    {{"show", "mine", "gold", "riyadh"},
     {"map", "mine", "riyadh"},
     {"nearest"},
     {"buffer"},
     {"buffer", "nearest"},
     {}}
GeoQueries ==
    {{"show", "mine", "gold", "riyadh"},
     {"region by type", "region", "by type", "type", "by"},
     {"by type", "type", "by", "count"},
     {"saudi", "occ", "occurrence", "gold"},
     {"saudi", "occ", "occurrence", "all"},
     {"riyadh", "point", "gold"},
     {}}
AgentQueries(v) == IF v = "backend" THEN BackendQueries ELSE GeoQueries

\* ------------------------------------------------------------- governance
\* DATA_GOV_STRICT and the <FEATURE>_ENABLE flags of the environment
FlagSets ==
    {[strict |-> FALSE, on |-> {}], [strict |-> TRUE, on |-> {}],
     [strict |-> TRUE, on |-> {"qc"}], [strict |-> TRUE, on |-> {"spatial", "ogc", "rasters"}]}

strict_mode(fl) == fl.strict
feature_enabled(fl, feature) == IF ~strict_mode(fl) THEN TRUE ELSE feature \in fl.on

\* ------------------------------------------------------------------ state
VARIABLES
    variant,          \* which version of the service runs
    entry,            \* "agent" (run_agent) or "workflow" (run_workflow)
    max_steps, query, uploaded, uploaded_fc, db_regions, flags, debug_trace, use_llm,  \* inputs
    pc,               \* position in the invocation
    step,             \* loop iterations started / plan steps done
    model_out,        \* last LLM text
    cur,              \* the parsed action awaiting execution
    tool_trace, artifacts, last_occurrences, seen_calls, scratchpad, plan_steps,
    llm_calls,        \* generate_response calls made in this invocation
    executed,         \* tool executors invoked, in order
    writes,           \* how many times each artifact key was assigned
    result,           \* what the invocation returned or raised
    _store,           \* chat_store._store[session_id]: the in-memory messages of one session
    agent_sessions,   \* the agent_sessions row of that session: [exists, messages]
    chat_log,         \* the non-empty messages whose append completed, per store, in order
    chat_req,         \* the requests that are inside append_message_db
    clamp,            \* one call of _clamp_int / _clamp_float: its arguments and its outcome
    jobs,             \* the jobs table: the status of each job id
    uploads,          \* the /rasters/upload requests and their background tasks
    _EXEC,            \* llm_service._EXEC: the submitted calls not yet finished, the first one on the worker
    llm_req           \* the generate_response calls: their LLM request and their outcome

vars == <<variant, entry, max_steps, query, uploaded, uploaded_fc, db_regions, flags, debug_trace, use_llm,
          pc, step, model_out, cur, tool_trace, artifacts, last_occurrences, seen_calls,
          scratchpad, plan_steps, llm_calls, executed, writes, result,
          _store, agent_sessions, chat_log, chat_req, clamp, jobs, uploads, _EXEC, llm_req>>

\* the state of one run_agent / run_workflow invocation
vars_invocation ==
    <<variant, entry, max_steps, query, uploaded, uploaded_fc, db_regions, flags, debug_trace,
      use_llm, pc, step, model_out, cur, tool_trace, artifacts, last_occurrences, seen_calls,
      scratchpad, plan_steps, llm_calls, executed, writes, result>>

\* the state of the session store, the clamp helpers and the job table
side == <<_store, agent_sessions, chat_log, chat_req, clamp, jobs, uploads, _EXEC, llm_req>>

inputs == <<variant, entry, max_steps, query, uploaded, uploaded_fc, db_regions, flags, debug_trace,
            use_llm>>

ArtifactKeys ==
    {"geojson", "csv", "stats_by_region", "stats_by_type", "stats_region_by_type",
     "importance_breakdown", "heatmap_bins", "nearest_results", "qc_summary",
     "qc_duplicates_mods_id", "qc_duplicates_coords", "qc_outliers", "ogc_items_url",
     "qgis_instructions", "spatial_total", "spatial_geojson", "spatial_buffer_geometry",
     "spatial_nearest", "commodity_stats", "overlay_geometry", "dissolved_feature_collection",
     "join_counts_feature_collection", "join_nearest_results", "zonal_stats", "charts"}

NoArtifact == [present |-> FALSE, rows |-> 0, gen |-> 0]
\* `key in artifacts`
In(key, arts) == arts[key].present
\* `artifacts.get(key)` is truthy
Truthy(key, arts) == arts[key].present /\ arts[key].rows > 0

\* a trace entry; error is "" for a completed call, else str(e)
POLICY == "disabled by data governance policy"
EXCEPTION == "exception"
Entry(tool, args, error, n) == [tool |-> tool, args |-> args, error |-> error, n |-> n]
NoCall == [action |-> "", args |-> EmptyDict, suffix |-> FALSE]
NoResult == [kind |-> "none", answer |-> <<>>, exc |-> ""]

\* a tool executor returns rows, returns nothing, fills its limit, or raises
Outcomes == {"rows", "empty", "full", "raise"}
Rows(o) == CASE o = "rows" -> 2 [] o = "full" -> 3 [] OTHER -> 0

\* no agent_sessions row yet
NoRow == [exists |-> FALSE, messages |-> <<>>]
\* the parts of the state a specification does not exercise stay at rest
ChatIdle ==
    /\ _store = <<>> /\ agent_sessions = NoRow
    /\ chat_log = [mem |-> <<>>, db |-> <<>>, last |-> [store |-> "", content |-> <<>>]]
    /\ chat_req = <<>>
\* append_message_db(db, session_id, "user", request.query): the query is not empty
UserMessage(q) == [role |-> "user", content |-> <<[t |-> "query", k |-> "", v |-> ""]>>]
ClampIdle == clamp = [fn |-> "", done |-> FALSE]
JobsIdle == jobs = <<>> /\ uploads = <<>>
LlmIdle == _EXEC = <<>> /\ llm_req = <<>>
InvocationIdle ==
    /\ variant = "backend" /\ entry = "none" /\ max_steps = 1 /\ query = {}
    /\ uploaded = FALSE /\ uploaded_fc = FALSE /\ db_regions = {}
    /\ debug_trace = FALSE /\ use_llm = TRUE
    /\ pc = "idle" /\ step = 0 /\ model_out = <<>> /\ cur = NoCall /\ tool_trace = <<>>
    /\ artifacts = [k \in ArtifactKeys |-> NoArtifact] /\ last_occurrences = -1
    /\ seen_calls = {} /\ scratchpad = 0 /\ plan_steps = <<>> /\ llm_calls = 0
    /\ executed = <<>> /\ writes = [k \in ArtifactKeys |-> 0] /\ result = NoResult

Init ==
    /\ variant \in {"backend", "geo"}
    /\ entry \in {"agent", "workflow"}
    /\ max_steps \in 1..MaxSteps
    /\ query \in (IF entry = "agent" THEN AgentQueries(variant) ELSE WorkflowQueries)
    /\ uploaded \in BOOLEAN
    /\ uploaded_fc \in BOOLEAN
    /\ db_regions \in {{}, {"Riyadh Region"}}
    /\ flags \in FlagSets
    /\ debug_trace \in BOOLEAN
    /\ use_llm \in BOOLEAN
    \* run_workflow exists in the backend version only
    /\ entry = "workflow" => variant = "backend"
    \* inputs an entry point does not read are held at their defaults
    /\ entry = "agent" => use_llm /\ ~uploaded_fc
    /\ entry = "workflow" => ~debug_trace /\ db_regions = {}
    \* the geo version reads no request context, no region table, no feature flags
    /\ variant = "geo" => ~uploaded /\ db_regions = {} /\ flags = [strict |-> FALSE, on |-> {}]
    /\ pc = IF entry = "agent" THEN "routing" ELSE "planning"
    /\ step = 0
    /\ model_out = <<>>
    /\ cur = NoCall
    /\ tool_trace = <<>>
    /\ artifacts = [k \in ArtifactKeys |-> NoArtifact]
    /\ last_occurrences = -1
    /\ seen_calls = {}
    /\ scratchpad = 0
    /\ plan_steps = <<>>
    /\ llm_calls = 0
    /\ executed = <<>>
    /\ writes = [k \in ArtifactKeys |-> 0]
    /\ result = NoResult
    \* POST /agent/ has stored the user's query before it calls run_agent
    /\ _store = <<>> /\ chat_req = <<>>
    /\ agent_sessions = IF entry = "agent"
                        THEN [exists |-> TRUE, messages |-> <<UserMessage(query)>>]
                        ELSE NoRow
    /\ chat_log = [mem |-> <<>>,
                   db |-> IF entry = "agent" THEN <<UserMessage(query)>> ELSE <<>>,
                   last |-> IF entry = "agent"
                            THEN [store |-> "db", content |-> UserMessage(query).content]
                            ELSE [store |-> "", content |-> <<>>]]
    /\ ClampIdle /\ JobsIdle /\ LlmIdle

\* ------------------------------------------------- run_agent: the router
\* _infer_regions_from_query (backend): region names of the data store whose base token
\* occurs in the query
RegionTokens(reg) ==
    CASE reg = "Riyadh Region" -> {"riyadh"}
      [] reg = "Madinah Region" -> {"madinah", "medina"}
      [] OTHER -> {reg}
_infer_regions_from_query(q, regs) == {reg \in regs : RegionTokens(reg) \cap q # {}}

\* _infer_commodity_from_query (backend)
_infer_commodity_from_query(q) ==
    IF "gold" \in q THEN "Gold"
    ELSE IF "copper" \in q THEN "Copper"
    ELSE IF "zinc" \in q THEN "Zinc"
    ELSE IF "silver" \in q THEN "Silver"
    ELSE ""

\* geo: the keyword predicates computed before the rules
in_saudi(q) == {"saudi", "ksa", "saudi arabia", "ar:al-saud", "ar:al-mamlaka"} \cap q # {}
wants_all(q) == {"all", "everything", "ar:jamee", "ar:kull", "ar:kaffa", "ar:kamil"} \cap q # {}
wants_points(q) ==
    {"occ", "occurrence", "occurrences", "point", "points", "ar:niqat", "ar:mawaqi",
     "ar:tawajud"} \cap q # {}
_extract_region_hint(q) ==
    IF "riyadh" \in q THEN "Riyadh"
    ELSE IF "ar:al-riyadh" \in q THEN "Riyadh"
    ELSE IF "ar:jeddah" \in q THEN "Jeddah"
    ELSE ""

\* The deterministic rule of run_agent that fires for a query, in the order of the code,
\* "none" when the loop is entered.
BackendRule(q, up, regs) ==
    IF /\ ("show" \in q \/ "map" \in q) /\ "mine" \in q
       /\ _infer_regions_from_query(q, regs) # {} /\ _infer_commodity_from_query(q) # ""
    THEN "mines"
    ELSE IF up /\ ("nearest" \in q \/ "closest" \in q) THEN "aoi_nearest"
    ELSE IF up /\ "buffer" \in q THEN "aoi_buffer"
    ELSE "none"

GeoRule(q) ==
    IF "region by type" \in q \/ ("region" \in q /\ "type" \in q /\ "by" \in q)
    THEN "region_by_type"
    ELSE IF "by type" \in q \/ ("types" \in q /\ "occurrence" \in q) \/ "type of occurrence" \in q
    THEN "by_type"
    ELSE IF /\ in_saudi(q) /\ wants_points(q)
            /\ "count" \notin q /\ "by type" \notin q /\ "region by type" \notin q
    THEN "saudi_points"
    ELSE IF /\ _extract_region_hint(q) # "" /\ wants_points(q)
            /\ "count" \notin q /\ "by type" \notin q /\ "region by type" \notin q
    THEN "region_points"
    ELSE "none"

DeterministicRule(v, q, up, regs) == IF v = "backend" THEN BackendRule(q, up, regs) ELSE GeoRule(q)

\* what each rule runs: the executor, the artifact key it assigns ("" for none), whether
\* it appends a trace entry, and whether its answer is written by _grounded_nl_summary
RuleTool(rule) ==
    CASE rule = "mines" -> "geojson_export"
      [] rule = "aoi_nearest" -> "spatial_nearest"
      [] rule = "aoi_buffer" -> "spatial_buffer"
      [] rule = "region_by_type" -> "stats_region_by_type"
      [] rule = "by_type" -> "stats_by_type"
      [] rule = "saudi_points" -> "bbox_mods"
      [] rule = "region_points" -> "search_mods"
RuleTraceName(rule) == IF rule = "mines" THEN "auto_geojson_export" ELSE RuleTool(rule)
RuleArtifact(rule) ==
    CASE rule = "mines" -> "geojson"
      [] rule = "aoi_nearest" -> "spatial_nearest"
      [] rule = "aoi_buffer" -> "spatial_buffer_geometry"
      [] rule = "region_by_type" -> "stats_region_by_type"
      [] rule = "by_type" -> "stats_by_type"
      [] OTHER -> ""
RuleTraces(rule) == rule \notin {"aoi_nearest", "aoi_buffer"}
\* RuleGrounded with the by-type rule also worded by _grounded_nl_summary
RuleGroundedByType(rule) == rule \in {"saudi_points", "region_points", "by_type"}
RuleGrounded(rule) == rule \in {"saudi_points", "region_points"}
RuleLimit(rule, q) ==
    CASE rule = "mines" -> 400
      [] rule = "aoi_nearest" -> 25
      [] rule = "region_by_type" -> 50
      [] rule = "by_type" -> 25
      [] rule = "saudi_points" -> IF wants_all(q) THEN 5000 ELSE 500
      [] rule = "region_points" -> IF wants_all(q) THEN 5000 ELSE 200
      [] OTHER -> 0
RuleArgs(rule, q) == Dict({"limit"}, [k \in {"limit"} |-> IntV(RuleLimit(rule, q))])

\* artifacts whose payload is a list (possibly empty); the others are never falsy
ListArtifacts ==
    {"stats_by_region", "stats_by_type", "stats_region_by_type", "importance_breakdown",
     "heatmap_bins", "nearest_results", "qc_duplicates_mods_id", "qc_duplicates_coords",
     "spatial_nearest", "commodity_stats", "join_nearest_results", "zonal_stats", "charts"}
ArtifactRows(key, o) == IF key \in ListArtifacts THEN Rows(o) ELSE Max(1, Rows(o))

\* artifacts[key] = value
Assign(arts, key, o, gen) == [arts EXCEPT ![key] = [present |-> TRUE, rows |-> ArtifactRows(key, o), gen |-> gen]]
Count(w, key) == [w EXCEPT ![key] = @ + 1]
Ran(tool, path, args) == [tool |-> tool, path |-> path, args |-> args]

Returned(ans) == pc' = "returned" /\ result' = [kind |-> "tuple", answer |-> ans, exc |-> ""]
Raised(e) == pc' = "raised" /\ result' = [kind |-> "exception", answer |-> <<>>, exc |-> e]

\* run_agent up to the loop: the deterministic rules, each running its tool outside any
\* try block, then (backend) the up-front rag_retrieve
AgentRoute ==
    /\ UNCHANGED side
    /\ pc = "routing" /\ entry = "agent"
    /\ LET rule == DeterministicRule(variant, query, uploaded, db_regions)
       IN IF rule = "none"
          THEN /\ \E occs \in {0, 2} :
                     last_occurrences' = IF variant = "backend" /\ occs > 0 THEN occs ELSE last_occurrences
               /\ scratchpad' = IF variant = "backend" THEN 1 ELSE 0
               /\ pc' = "prompting"
               /\ UNCHANGED <<tool_trace, artifacts, executed, writes, result, cur>>
          ELSE \E o \in Outcomes :
               /\ executed' = Append(executed, Ran(RuleTool(rule), "fast", RuleArgs(rule, query)))
               /\ IF o = "raise"
                  THEN /\ Raised("tool")
                       /\ UNCHANGED <<tool_trace, artifacts, writes, last_occurrences, cur>>
                  ELSE /\ artifacts' = IF RuleArtifact(rule) # ""
                                       THEN Assign(artifacts, RuleArtifact(rule), o, Len(executed) + 1)
                                       ELSE artifacts
                       /\ writes' = IF RuleArtifact(rule) # "" THEN Count(writes, RuleArtifact(rule)) ELSE writes
                       /\ last_occurrences' = IF RuleGrounded(rule) THEN Rows(o) ELSE last_occurrences
                       /\ tool_trace' = IF RuleTraces(rule)
                                        THEN Append(tool_trace, Entry(RuleTraceName(rule), RuleArgs(rule, query), "", Rows(o)))
                                        ELSE tool_trace
                       /\ IF RuleGrounded(rule)
                          THEN /\ pc' = "grounding"
                               /\ cur' = [NoCall EXCEPT !.suffix = (o = "full")]
                               /\ UNCHANGED result
                          ELSE /\ Returned(IF rule = "mines" THEN sanitize_text(Det(rule)) ELSE Det(rule))
                               /\ UNCHANGED cur
               /\ UNCHANGED scratchpad
    /\ UNCHANGED <<inputs, step, model_out, seen_calls, plan_steps, llm_calls>>

\* --------------------------------------------- run_agent: guard rails (backend)
ClampLimit(a, lo, hi, d) == Put(a, "limit", IntV(_clamp_int(Get(a, "limit"), lo, hi, d)))
ClampF(a, k, lo, hi, d) == Put(a, k, FloatV(_clamp_float(Get(a, k), lo, hi, d)))

NormRegion(a) ==
    IF Has(a, "region") THEN Put(a, "region", _normalize_region_value(Get(a, "region"))) ELSE a
NormOccType(a) ==
    IF Has(a, "occurrence_type")
    THEN Put(a, "occurrence_type", _normalize_occurrence_type(Get(a, "occurrence_type")))
    ELSE a
NormStatus(a) ==
    IF Has(a, "exploration_status") /\ Get(a, "exploration_status").tag # "none"
    THEN LET vv == StripStr(PyStr(Get(a, "exploration_status")))
         IN Put(a, "exploration_status", IF vv = "" THEN None ELSE StrV(vv))
    ELSE a

\* the per-tool limit clamps of run_agent
AgentClamps(action, a) ==
    CASE action \in {"search_mods", "nearby_mods", "bbox_mods", "nearest_mods"} -> ClampLimit(a, 1, 200, 25)
      [] action = "geojson_export" -> ClampLimit(a, 1, 2000, 200)
      [] action = "csv_export" -> ClampLimit(a, 1, 5000, 2000)
      [] action \in {"stats_by_region", "commodity_stats"} -> ClampLimit(a, 1, 200, 25)
      [] action = "heatmap_bins" ->
            LET b == ClampLimit(a, 1, 500, 200)
            IN Put(b, "bin_km",
                   FloatV(_clamp_float(IF Has(b, "bin_km") THEN Get(b, "bin_km") ELSE FloatV(250),
                                       10, 2500, 250)))
      [] action \in {"qc_duplicates_mods_id", "qc_duplicates_coords", "qc_outliers"} -> ClampLimit(a, 1, 5000, 200)
      [] action = "spatial_query" ->
            LET b == ClampLimit(a, 1, 5000, 500)
                c == Put(b, "offset", IntV(_clamp_int(Get(b, "offset"), 0, 500000, 0)))
            IN IF Get(c, "op") = StrV("dwithin") THEN ClampF(c, "distance_m", 0, 20000000, 500000) ELSE c
      [] action = "spatial_buffer" -> ClampF(a, "distance_m", 0, 20000000, 500000)
      [] action = "spatial_nearest" -> ClampLimit(a, 1, 500, 25)
      [] OTHER -> a

ClampedActions ==
    {"search_mods", "nearby_mods", "bbox_mods", "nearest_mods", "geojson_export", "csv_export",
     "stats_by_region", "commodity_stats", "heatmap_bins", "qc_duplicates_mods_id",
     "qc_duplicates_coords", "qc_outliers", "spatial_query", "spatial_buffer", "spatial_nearest"}

\* the geo clamps; an invalid lat/lon raises ValueError here, outside the try block
AgentGeo(action, a) ==
    CASE action \in {"nearby_mods", "nearest_mods"} ->
            LET ll == _validate_lat_lon(Get(a, "lat"), Get(a, "lon"))
            IN IF ~ll.ok THEN [exc |-> "ValueError", args |-> a]
               ELSE LET b == Put(Put(a, "lat", FloatV(ll.la)), "lon", FloatV(ll.lo))
                    IN [exc |-> "",
                        args |-> IF action = "nearby_mods" THEN ClampF(b, "radius_km", 1, 10000, 500) ELSE b]
      [] action = "bbox_mods" ->
            [exc |-> "",
             args |-> ClampF(ClampF(ClampF(ClampF(a, "min_lat", 0 - 900, 900, 0 - 900),
                                           "max_lat", 0 - 900, 900, 900),
                                    "min_lon", 0 - 1800, 1800, 0 - 1800),
                             "max_lon", 0 - 1800, 1800, 1800)]
      [] OTHER -> [exc |-> "", args |-> a]

\* lines "Guard rails" of run_agent (backend): the normalised args, or the exception
\* that leaves run_agent (item assignment on a non-dict, .strip() on a non-string)
AgentNormalize(action, a) ==
    IF a.kind # "dict"
    THEN IF action \in ClampedActions THEN [exc |-> "TypeError", args |-> a] ELSE [exc |-> "", args |-> a]
    ELSE IF Has(a, "occurrence_type") /\ Get(a, "occurrence_type").tag \notin {"none", "str"}
         THEN [exc |-> "AttributeError", args |-> a]
    ELSE AgentGeo(action, AgentClamps(action, NormStatus(NormOccType(NormRegion(a)))))

\* --------------------------------------------------- run_agent: the registry
GeoTools ==
    {"search_mods", "nearby_mods", "commodity_stats", "bbox_mods", "nearest_mods",
     "geojson_export", "csv_export", "stats_by_region", "stats_by_type",
     "stats_region_by_type", "importance_breakdown", "heatmap_bins", "rag"}
BackendTools ==
    {"search_mods", "nearby_mods", "commodity_stats", "bbox_mods", "nearest_mods",
     "geojson_export", "csv_export", "stats_by_region", "importance_breakdown", "heatmap_bins",
     "qc_summary", "qc_duplicates_mods_id", "qc_duplicates_coords", "qc_outliers",
     "ogc_items_link", "publish_layer_instructions", "spatial_query", "spatial_buffer",
     "spatial_nearest", "rag"}
AgentTools(v) == IF v = "backend" THEN BackendTools ELSE GeoTools

\* the artifact key a branch of the dispatch assigns, "" when it assigns none
AgentArtifactOf(action) ==
    CASE action = "nearest_mods" -> "nearest_results"
      [] action = "geojson_export" -> "geojson"
      [] action = "csv_export" -> "csv"
      [] action \in {"stats_by_region", "stats_by_type", "stats_region_by_type",
                     "importance_breakdown", "heatmap_bins", "qc_summary",
                     "qc_duplicates_mods_id", "qc_duplicates_coords", "qc_outliers",
                     "spatial_nearest"} -> action
      [] action = "ogc_items_link" -> "ogc_items_url"
      [] action = "publish_layer_instructions" -> "qgis_instructions"
      [] action = "spatial_query" -> "spatial_geojson"
      [] action = "spatial_buffer" -> "spatial_buffer_geometry"
      [] OTHER -> ""

\* `already`: the tool's artifact is there
AlreadyGeo(action, arts) ==
    \/ (action = "heatmap_bins" /\ In("heatmap_bins", arts))
    \/ (action = "stats_by_region" /\ In("stats_by_region", arts))
    \/ (action = "importance_breakdown" /\ In("importance_breakdown", arts))
    \/ (action = "geojson_export" /\ In("geojson", arts))
    \/ (action = "csv_export" /\ In("csv", arts))
    \/ (action = "nearest_mods" /\ In("nearest_results", arts))
AlreadyBackend(action, arts) ==
    \/ AlreadyGeo(action, arts)
    \/ (action = "qc_summary" /\ In("qc_summary", arts))
    \/ (action = "qc_duplicates_mods_id" /\ In("qc_duplicates_mods_id", arts))
    \/ (action = "qc_duplicates_coords" /\ In("qc_duplicates_coords", arts))
    \/ (action = "qc_outliers" /\ In("qc_outliers", arts))
    \/ (action = "ogc_items_link" /\ In("ogc_items_url", arts))
    \/ (action = "publish_layer_instructions" /\ In("qgis_instructions", arts))
    \/ (action = "spatial_query" /\ In("spatial_geojson", arts))
    \/ (action = "spatial_buffer" /\ In("spatial_buffer_geometry", arts))
    \/ (action = "spatial_nearest" /\ In("spatial_nearest", arts))
Already(v, action, arts) == IF v = "backend" THEN AlreadyBackend(action, arts) ELSE AlreadyGeo(action, arts)

\* the feature a branch of run_agent's dispatch checks before it runs, "" for none
AgentGate(v, action) ==
    IF v # "backend" THEN ""
    ELSE CASE action \in {"qc_summary", "qc_duplicates_mods_id", "qc_duplicates_coords", "qc_outliers"} -> "qc"
           [] action \in {"ogc_items_link", "publish_layer_instructions"} -> "ogc"
           [] action \in {"spatial_query", "spatial_buffer", "spatial_nearest"} -> "spatial"
           [] OTHER -> ""

\* tools whose result becomes last_occurrences
OccurrenceTools == {"search_mods", "nearby_mods", "bbox_mods"}
\* executors called as f(db, **args) or reading args.get(...): a non-dict args raises
TakesArgs(action) == action # "qc_summary"

\* ------------------------------------------------------ run_agent: the loop
\* LoopPc with the bound off by one: one iteration more than max_steps
LoopPcOffByOne(st) == IF st <= max_steps THEN "prompting" ELSE "synth"

\* where `for _ in range(max_steps)` goes after an iteration: the next one, or past the loop
LoopPc(st) == IF st < max_steps THEN "prompting" ELSE "synth"

\* str(action_obj.get("answer", ""))
AnswerText(obj) == <<Tok("str", "", obj.val["answer"])>>

\* One PROMPTING iteration up to the dispatch: generate_response, _extract_json_object,
\* and the three outcomes (no action / final / a tool name).
AgentPrompt ==
    /\ UNCHANGED side
    /\ pc = "prompting" /\ entry = "agent"
    /\ llm_calls' = llm_calls + 1
    /\ step' = step + 1
    /\ \/ /\ variant = "geo"            \* generate_response has no handler: the error leaves run_agent
          /\ Raised("llm")
          /\ UNCHANGED <<model_out, cur>>
       \/ \E text \in AgentTexts :
             /\ model_out' = text
             /\ LET action_obj == _extract_json_object(variant, text)
                IN IF Falsy(action_obj) \/ "action" \notin action_obj.keys
                   THEN IF Len(tool_trace) > 0
                        THEN pc' = "synth" /\ UNCHANGED <<result, cur>>
                        ELSE /\ Returned(IF variant = "backend" THEN sanitize_text(text) ELSE text)
                             /\ UNCHANGED cur
                   ELSE IF action_obj.val["action"] = "final"
                   THEN IF variant = "backend"
                        THEN Returned(AnswerText(action_obj)) /\ UNCHANGED cur
                        ELSE pc' = "grounding" /\ cur' = NoCall /\ UNCHANGED result
                   ELSE /\ pc' = "executing"
                        /\ cur' = [action |-> action_obj.val["action"],
                                   args |-> ArgsOrEmpty(action_obj), suffix |-> FALSE]
                        /\ UNCHANGED result
    /\ UNCHANGED <<inputs, tool_trace, artifacts, last_occurrences, seen_calls, scratchpad,
                   plan_steps, executed, writes>>

\* the outcomes a tool call of the loop can have
LoopOutcomes(action, args) ==
    IF args.kind # "dict" /\ TakesArgs(action) THEN {"raise"} ELSE {"rows", "empty", "raise"}

\* args recorded in the trace entry of a successful call
TraceArgs(action, args) == IF action = "qc_summary" THEN EmptyDict ELSE args

\* artifacts after a successful call of `action`
Produce(arts, action, o, gen) ==
    LET a1 == IF AgentArtifactOf(action) # "" THEN Assign(arts, AgentArtifactOf(action), o, gen) ELSE arts
    IN IF action = "spatial_query" THEN Assign(a1, "spatial_total", o, gen) ELSE a1
Counted(w, action) ==
    LET w1 == IF AgentArtifactOf(action) # "" THEN Count(w, AgentArtifactOf(action)) ELSE w
    IN IF action = "spatial_query" THEN Count(w1, "spatial_total") ELSE w1

\* OnToolError as `except Exception: pass`: the failure leaves no trace entry
OnToolErrorSilent(trace, action, args, e) == trace

\* the except clause of the loop: one {tool, args, error} entry
OnToolError(trace, action, args, e) == Append(trace, Entry(action, args, e, 0))

NeverDetected(calls, call_key) == FALSE
\* call_key in seen_calls: the same tool with the same normalized args was attempted
LoopDetected(calls, call_key) == call_key \in calls

\* EXECUTING: guard rails, redundancy and repetition checks, then the dispatch inside
\* try/except.
AgentExecute ==
    /\ UNCHANGED side
    /\ pc = "executing" /\ entry = "agent"
    /\ LET action == cur.action
           norm == IF variant = "backend" THEN AgentNormalize(action, cur.args)
                   ELSE [exc |-> "", args |-> cur.args]
           args == norm.args
           call_key == <<action, args>>
       IN IF norm.exc # ""
          THEN /\ Raised(norm.exc)
               /\ UNCHANGED <<tool_trace, artifacts, last_occurrences, seen_calls, scratchpad,
                              executed, writes, llm_calls>>
          ELSE IF Already(variant, action, artifacts)
          THEN /\ tool_trace' = IF debug_trace
                                THEN Append(tool_trace, Entry("redundant_tool_call", args, "", 0))
                                ELSE tool_trace
               /\ pc' = "synth"
               /\ UNCHANGED <<artifacts, last_occurrences, seen_calls, scratchpad, executed,
                              writes, llm_calls, result>>
          ELSE IF LoopDetected(seen_calls, call_key)
          THEN /\ tool_trace' = IF debug_trace
                                THEN Append(tool_trace, Entry("loop_detected", args, "", 0))
                                ELSE tool_trace
               /\ pc' = "synth"
               /\ UNCHANGED <<artifacts, last_occurrences, seen_calls, scratchpad, executed,
                              writes, llm_calls, result>>
          ELSE /\ seen_calls' = seen_calls \cup {call_key}
               /\ IF action \notin AgentTools(variant)
                  THEN \* unknown tool => stop
                       /\ tool_trace' = Append(tool_trace, Entry("unknown", args, "", 0))
                       /\ Returned(IF variant = "backend" THEN sanitize_text(model_out) ELSE model_out)
                       /\ UNCHANGED <<artifacts, last_occurrences, scratchpad, executed, writes, llm_calls>>
                  ELSE IF AgentGate(variant, action) # "" /\ ~feature_enabled(flags, AgentGate(variant, action))
                  THEN \* the ValueError of the gate is caught by the except clause
                       /\ tool_trace' = OnToolError(tool_trace, action, args, POLICY)
                       /\ scratchpad' = scratchpad + 1
                       /\ pc' = LoopPc(step)
                       /\ UNCHANGED <<artifacts, last_occurrences, executed, writes, llm_calls, result>>
                  ELSE \E o \in LoopOutcomes(action, args) :
                       /\ executed' = Append(executed, Ran(action, "llm", args))
                       /\ IF o = "raise"
                          THEN /\ tool_trace' = OnToolError(tool_trace, action, args, EXCEPTION)
                               /\ scratchpad' = scratchpad + 1
                               /\ pc' = LoopPc(step)
                               \* geo: the rag tool may fail before or inside its own LLM call
                               /\ \E n \in {0, 1} :
                                     /\ n = 1 => (variant = "geo" /\ action = "rag")
                                     /\ llm_calls' = llm_calls + n
                               /\ UNCHANGED <<artifacts, last_occurrences, writes, result>>
                          ELSE /\ artifacts' = Produce(artifacts, action, o, Len(executed) + 1)
                               /\ writes' = Counted(writes, action)
                               /\ last_occurrences' =
                                     IF action \in OccurrenceTools THEN Rows(o)
                                     ELSE IF action = "rag" /\ (variant = "geo" \/ Rows(o) > 0) THEN Rows(o)
                                     ELSE last_occurrences
                               /\ llm_calls' = IF variant = "geo" /\ action = "rag" THEN llm_calls + 1 ELSE llm_calls
                               /\ tool_trace' = Append(tool_trace, Entry(action, TraceArgs(action, args), "", Rows(o)))
                               /\ scratchpad' = scratchpad + 1
                               \* backend: audit_log and `return` follow the if/elif chain
                               \* inside the try block, so a successful call returns
                               /\ IF variant = "backend"
                                  THEN Returned(sanitize_text(model_out))
                                  ELSE pc' = LoopPc(step) /\ UNCHANGED result
    /\ UNCHANGED <<inputs, step, model_out, cur, plan_steps>>

\* the artifact keys the answer synthesis looks at, in order
BackendSynthKeys ==
    <<"geojson", "csv", "stats_by_region", "importance_breakdown", "heatmap_bins", "qc_summary",
      "qc_outliers", "ogc_items_url", "qgis_instructions", "spatial_geojson",
      "spatial_buffer_geometry", "spatial_nearest">>
GeoSynthKeys ==
    <<"geojson", "csv", "stats_by_region", "stats_by_type", "stats_region_by_type",
      "importance_breakdown", "heatmap_bins">>
SynthKeys(v) == IF v = "backend" THEN BackendSynthKeys ELSE GeoSynthKeys

\* the key whose deterministic answer is returned, "" when there is none
SynthKey(v, arts, occs) ==
    LET keys == SynthKeys(v)
    IN IF \E i \in 1..Len(keys) : In(keys[i], arts)
       THEN keys[CHOOSE i \in 1..Len(keys) : In(keys[i], arts) /\ \A j \in 1..(i - 1) : ~In(keys[j], arts)]
       ELSE IF In("nearest_results", arts) /\ occs <= 0 THEN "nearest_results"
       ELSE ""

SynthAnswer(key, q) ==
    IF key = "stats_by_region" /\ "gold" \in q THEN Det("stats_by_region (Gold)") ELSE Det(key)

\* After the loop: a deterministic answer from the artifacts, else a forced final answer.
AgentSynthesize ==
    /\ UNCHANGED side
    /\ pc = "synth" /\ entry = "agent"
    /\ LET key == SynthKey(variant, artifacts, last_occurrences)
       IN IF key # ""
          THEN Returned(SynthAnswer(key, query)) /\ UNCHANGED <<model_out, llm_calls, cur>>
          ELSE IF variant = "backend"
          THEN \E text \in AgentTexts :
                  /\ llm_calls' = llm_calls + 1
                  /\ model_out' = text
                  /\ LET action_obj == _extract_json_object(variant, text)
                     IN IF ~Falsy(action_obj) /\ "action" \in action_obj.keys
                           /\ action_obj.val["action"] = "final"
                        THEN Returned(sanitize_text(AnswerText(action_obj)))
                        ELSE Returned(sanitize_text(text))
                  /\ UNCHANGED cur
          ELSE IF Len(tool_trace) > 0 \/ last_occurrences > 0 \/ (\E k \in ArtifactKeys : In(k, artifacts))
          THEN pc' = "grounding" /\ cur' = NoCall /\ UNCHANGED <<model_out, llm_calls, result>>
          ELSE Returned(model_out) /\ UNCHANGED <<model_out, llm_calls, cur>>
    /\ UNCHANGED <<inputs, step, tool_trace, artifacts, last_occurrences, seen_calls, scratchpad,
                   plan_steps, executed, writes>>

\* _grounded_nl_summary (geo) and what its callers append to it
AgentGroundedSummary ==
    /\ UNCHANGED side
    /\ pc = "grounding" /\ entry = "agent"
    /\ llm_calls' = llm_calls + 1
    /\ \/ Raised("llm") /\ UNCHANGED model_out
       \/ \E text \in ProseTexts :
             LET txt == Strip(text)
                 grounded == IF last_occurrences > 0 THEN Append(RStrip(txt), FOUND) ELSE txt
             IN /\ Returned(IF cur.suffix THEN Append(RStrip(grounded), SHOWING_FIRST) ELSE grounded)
                /\ UNCHANGED model_out
    /\ UNCHANGED <<inputs, step, cur, tool_trace, artifacts, last_occurrences, seen_calls,
                   scratchpad, plan_steps, executed, writes>>

\* ----------------------------------------------------------- the session store
\* the non-empty appends made on one store
MaxAppends == 42
\* "keep last 40 messages"
KeepLast == 40

\* A content is a sequence of characters; the n-th non-empty message of a session holds
\* <<n>>. The endpoints append the user's query, then the assistant's answer.
ChatMessage(n) == [role |-> IF n % 2 = 1 THEN "user" ELSE "assistant", content |-> <<n>>]
\* msgs[-k:]
LastOf(msgs, k) == IF Len(msgs) > k THEN SubSeq(msgs, Len(msgs) - k + 1, Len(msgs)) ELSE msgs
AppendedKeepingFirst(msgs, m) ==
    IF Len(msgs) + 1 > KeepLast THEN SubSeq(Append(msgs, m), 1, KeepLast) ELSE Append(msgs, m)
\* msgs.append(m), then msgs[-40:] when there are more than 40
Appended(msgs, m) ==
    IF Len(msgs) + 1 > KeepLast THEN LastOf(Append(msgs, m), KeepLast) ELSE Append(msgs, m)
\* the call just made, and the messages that calls have appended to each store
Logged(store, m) ==
    [chat_log EXCEPT !.last = [store |-> store, content |-> m.content],
                     ![store] = IF Len(m.content) = 0 THEN @ ELSE Append(@, m)]
\* the message of a call: no content, or the next message of the session
NextMessages(store) ==
    {[role |-> r, content |-> <<>>] : r \in {"user", "assistant"}}
    \cup {ChatMessage(Len(chat_log[store]) + 1)}

\* append_message(session_id, role, content)
append_message(m) ==
    /\ _store' = IF Len(m.content) = 0 THEN _store ELSE Appended(_store, m)
    /\ chat_log' = Logged("mem", m)
    /\ UNCHANGED <<agent_sessions, chat_req>>

\* append_message_db(db, session_id, role, content), run alone
append_message_db(m) ==
    /\ agent_sessions' =
          IF Len(m.content) = 0 THEN agent_sessions
          ELSE [exists |-> TRUE, messages |-> Appended(agent_sessions.messages, m)]
    /\ chat_log' = Logged("db", m)
    /\ UNCHANGED <<_store, chat_req>>

\* ------------------------------------------------- POST /agent/: the reply
\* routers/agent.py 46: after run_agent returned, the answer is appended to the session
\* as the assistant's message (append_message_db returns at once on an empty content)
AgentRespond ==
    /\ entry = "agent" /\ pc = "returned"
    /\ chat_log.last.content = UserMessage(query).content
    /\ append_message_db([role |-> "assistant", content |-> result.answer])
    /\ UNCHANGED <<vars_invocation, clamp, jobs, uploads, _EXEC, llm_req>>

NextAgent == AgentRoute \/ AgentPrompt \/ AgentExecute \/ AgentSynthesize \/ AgentGroundedSummary

\* ------------------------------------------------ run_workflow: the planner
PlanStep(action, args) == [action |-> action, args |-> args]
Opt(c, st) == IF c THEN <<st>> ELSE <<>>
D1(k, v) == Dict({k}, [x \in {k} |-> v])
D2(k1, v1, k2, v2) == Dict({k1, k2}, [x \in {k1, k2} |-> IF x = k1 THEN v1 ELSE v2])

\* the keyword rules of run_workflow: every matching category adds one step
DeterministicPlan(q, up, fc) ==
    Opt(up /\ "buffer" \in q,
        PlanStep("spatial_buffer", D2("geometry", None, "distance_m", FloatV(500000))))
    \o Opt(up /\ ("nearest" \in q \/ "closest" \in q),
           PlanStep("spatial_nearest", D2("geometry", None, "limit", IntV(25))))
    \o Opt(up /\ ("intersect" \in q \/ "clip" \in q),
           PlanStep("spatial_query", D2("op", StrV("intersects"), "limit", IntV(500))))
    \o Opt("qc" \in q \/ "quality" \in q \/ "duplicates" \in q, PlanStep("qc_summary", EmptyDict))
    \o Opt("commodity" \in q \/ "commodities" \in q \/ "top commodities" \in q,
           PlanStep("commodity_stats", D1("limit", IntV(15))))
    \o Opt("region" \in q \/ "regions" \in q \/ "by region" \in q,
           PlanStep("stats_by_region", D1("limit", IntV(20))))
    \o Opt("importance" \in q, PlanStep("importance_breakdown", EmptyDict))
    \o Opt("heatmap" \in q \/ "density" \in q \/ "hotspot" \in q,
           PlanStep("heatmap_bins", D2("bin_km", FloatV(500), "limit", IntV(4000))))
    \o Opt(fc /\ "dissolve" \in q, PlanStep("spatial_dissolve", EmptyDict))
    \o Opt(fc /\ ("spatial join" \in q \/ ("join" \in q /\ ("count" \in q \/ "counts" \in q))),
           PlanStep("spatial_join_mods_counts", EmptyDict))
    \o Opt(fc /\ ("nearest join" \in q \/ ("join" \in q /\ "nearest" \in q)),
           PlanStep("spatial_join_mods_nearest", EmptyDict))
    \o Opt(fc /\ ("overlay" \in q \/ "intersection" \in q \/ "union" \in q \/ "difference" \in q),
           PlanStep("spatial_overlay", EmptyDict))

\* the value of "plan" in an LLM reply, by id: a list of entries, each a dict with a
\* string action (valid) or something else
RawStep(valid, action, id) == [valid |-> valid, action |-> action, args |-> id]
PlanOf(id) ==
    CASE id = "p_qc" -> <<RawStep(TRUE, "qc_summary", "")>>
      [] id = "p_mix" -> <<RawStep(TRUE, "search_mods", "lim999"), RawStep(TRUE, "qc_outliers", "lim5"),
                           RawStep(TRUE, "heatmap_bins", "lim999")>>
      [] id = "p_gated" -> <<RawStep(TRUE, "spatial_buffer", ""), RawStep(TRUE, "ogc_items_link", ""),
                             RawStep(TRUE, "rasters_zonal_stats", "")>>
      [] id = "p_odd" -> <<RawStep(FALSE, "", ""), RawStep(TRUE, "", ""), RawStep(TRUE, "bogus", "list")>>
      [] OTHER -> <<>>
\* isinstance(plan, list)
PlanIsList(obj) == "plan" \in obj.keys /\ obj.val["plan"] # "p_notlist"

T_plan(id) == <<W, LB, KV("plan", id), RB>>
PlanTexts ==
    {T_plan(id) : id \in {"p_qc", "p_mix", "p_gated", "p_odd", "p_notlist"}}
    \cup {T_prose, T_broken, T_timeout, T_error}

\* plan[:max_steps], keeping the well-formed entries
RECURSIVE TakePlan(_)
TakePlan(raw) ==
    IF Len(raw) = 0 THEN <<>>
    ELSE (IF Head(raw).valid THEN <<PlanStep(Head(raw).action, ArgsOf(Head(raw).args))>> ELSE <<>>)
         \o TakePlan(Tail(raw))
Prefix(sq, n) == SubSeq(sq, 1, Min(n, Len(sq)))

AsksLlmWheneverNoStep(steps, llm) == Len(steps) = 0
\* "if not plan_steps and use_llm": the planner turns to the LLM
AsksLlmForPlan(steps, llm) == Len(steps) = 0 /\ llm

\* PLAN: the keyword rules; with no step and use_llm, one LLM call for a plan
WorkflowPlan ==
    /\ UNCHANGED side
    /\ pc = "planning" /\ entry = "workflow"
    /\ LET det == DeterministicPlan(query, uploaded, uploaded_fc)
       IN IF ~AsksLlmForPlan(det, use_llm)
          THEN plan_steps' = det /\ UNCHANGED <<llm_calls, model_out>>
          ELSE \E text \in PlanTexts :
                  /\ llm_calls' = llm_calls + 1
                  /\ model_out' = text
                  /\ LET obj == _extract_json_object_loose(text)
                     IN plan_steps' = IF PlanIsList(obj)
                                      THEN TakePlan(Prefix(PlanOf(obj.val["plan"]), max_steps))
                                      ELSE <<>>
    /\ pc' = "executing_plan"
    /\ UNCHANGED <<inputs, step, cur, tool_trace, artifacts, last_occurrences, seen_calls,
                   scratchpad, executed, writes, result>>

\* --------------------------------------------- run_workflow: step execution
\* the clamps _exec applies
ExecClamps(action, a) ==
    CASE action \in {"search_mods", "nearby_mods", "bbox_mods", "nearest_mods"} -> ClampLimit(a, 1, 200, 25)
      [] action = "geojson_export" -> ClampLimit(a, 1, 2000, 200)
      [] action = "csv_export" -> ClampLimit(a, 1, 5000, 2000)
      [] action = "spatial_query" ->
            LET b == ClampLimit(a, 1, 5000, 500)
                c == Put(b, "offset", IntV(_clamp_int(Get(b, "offset"), 0, 500000, 0)))
            IN IF Get(c, "op") = StrV("dwithin") THEN ClampF(c, "distance_m", 0, 20000000, 500000) ELSE c
      [] action = "spatial_buffer" -> ClampF(a, "distance_m", 0, 20000000, 500000)
      [] action = "spatial_nearest" -> ClampLimit(a, 1, 500, 25)
      [] OTHER -> a

\* dict(args) and the normalisation at the head of _exec: the args, or the exception
ExecNormalize(action, a) ==
    IF a.kind # "dict" THEN [exc |-> "TypeError", args |-> a]
    ELSE IF Has(a, "occurrence_type") /\ Get(a, "occurrence_type").tag \notin {"none", "str"}
         THEN [exc |-> "AttributeError", args |-> a]
    ELSE [exc |-> "", args |-> ExecClamps(action, NormOccType(NormRegion(a)))]

QcNames == {"qc_summary", "qc_duplicates_mods_id", "qc_duplicates_coords", "qc_outliers"}
SpatialNames ==
    {"spatial_query", "spatial_buffer", "spatial_nearest", "spatial_overlay", "spatial_dissolve",
     "spatial_join_mods_counts", "spatial_join_mods_nearest"}
FcNames == {"spatial_overlay", "spatial_dissolve", "spatial_join_mods_counts", "spatial_join_mods_nearest"}
RasterNames == {"rasters_zonal_stats"}

\* ExecGate without the qc_ prefix check
ExecGateNoQc(action) ==
    CASE action \in SpatialNames -> "spatial"
      [] action \in RasterNames -> "rasters"
      [] OTHER -> ""

\* the feature _exec checks for an action (action.startswith(prefix)), "" for none
ExecGate(action) ==
    CASE action \in QcNames -> "qc"
      [] action \in SpatialNames -> "spatial"
      [] action \in RasterNames -> "rasters"
      [] OTHER -> ""

WorkflowTools ==
    (BackendTools \ {"rag"}) \cup FcNames \cup RasterNames

WorkflowArtifactOf(action) ==
    CASE action = "commodity_stats" -> "commodity_stats"
      [] action = "spatial_overlay" -> "overlay_geometry"
      [] action = "spatial_dissolve" -> "dissolved_feature_collection"
      [] action = "spatial_join_mods_counts" -> "join_counts_feature_collection"
      [] action = "spatial_join_mods_nearest" -> "join_nearest_results"
      [] action = "rasters_zonal_stats" -> "zonal_stats"
      [] OTHER -> AgentArtifactOf(action)

\* the outcomes an executor can have for the inputs of this request
ExecOutcomes(action, args) ==
    IF \/ (action \in FcNames /\ ~uploaded_fc)
       \/ (action \in {"spatial_buffer", "spatial_nearest", "spatial_query"} /\ ~uploaded)
       \/ action \in RasterNames
    THEN {"raise"}
    ELSE {"rows", "empty", "raise"}

WorkflowProduce(arts, action, o, gen) ==
    LET a1 == IF WorkflowArtifactOf(action) # "" THEN Assign(arts, WorkflowArtifactOf(action), o, gen) ELSE arts
    IN IF action = "spatial_query" THEN Assign(a1, "spatial_total", o, gen) ELSE a1
WorkflowCounted(w, action) ==
    LET w1 == IF WorkflowArtifactOf(action) # "" THEN Count(w, WorkflowArtifactOf(action)) ELSE w
    IN IF action = "spatial_query" THEN Count(w1, "spatial_total") ELSE w1

\* the steps run_workflow executes: plan_steps[:max_steps]
StepsToRun == Prefix(plan_steps, max_steps)

OnStepErrorTwice(trace, action, args, e) ==
    Append(Append(trace, Entry(action, args, e, 0)), Entry(action, args, e, 0))
\* the except clause of the step loop: one {tool, args, error} entry
OnStepError(trace, action, args, e) == Append(trace, Entry(action, args, e, 0))

\* EXECUTE, one planned step: _exec inside try/except
WorkflowStep ==
    /\ UNCHANGED side
    /\ pc = "executing_plan" /\ entry = "workflow"
    /\ step < Len(StepsToRun)
    /\ step' = step + 1
    /\ LET st == StepsToRun[step + 1]
           action == st.action
           norm == ExecNormalize(action, st.args)
           args == norm.args
       IN IF action = ""
          THEN UNCHANGED <<tool_trace, artifacts, last_occurrences, executed, writes>>
          ELSE IF norm.exc # "" \/ (ExecGate(action) # "" /\ ~feature_enabled(flags, ExecGate(action)))
          THEN /\ tool_trace' = OnStepError(tool_trace, action, st.args, IF norm.exc # "" THEN norm.exc ELSE POLICY)
               /\ UNCHANGED <<artifacts, last_occurrences, executed, writes>>
          ELSE IF action \notin WorkflowTools
          THEN /\ tool_trace' = Append(tool_trace, Entry("unknown_step", args, "", 0))
               /\ UNCHANGED <<artifacts, last_occurrences, executed, writes>>
          ELSE \E o \in ExecOutcomes(action, args) :
               /\ executed' = Append(executed, Ran(action, "plan", args))
               /\ IF o = "raise"
                  THEN /\ tool_trace' = OnStepError(tool_trace, action, st.args, EXCEPTION)
                       /\ UNCHANGED <<artifacts, last_occurrences, writes>>
                  ELSE /\ artifacts' = WorkflowProduce(artifacts, action, o, Len(executed) + 1)
                       /\ writes' = WorkflowCounted(writes, action)
                       /\ last_occurrences' = IF action \in OccurrenceTools THEN Rows(o) ELSE last_occurrences
                       /\ tool_trace' = Append(tool_trace, Entry(action, TraceArgs(action, args), "", Rows(o)))
    /\ UNCHANGED <<inputs, pc, model_out, cur, seen_calls, scratchpad, plan_steps, llm_calls, result>>

\* ------------------------------------------------ run_workflow: the summary
Bit(key) == Tok("bit", key, "")
UNAVAILABLE == Tok("LLM summary was unavailable", "", "")
OFFLINE_NONE == Tok("Workflow executed (offline mode). No summary artifacts were produced.", "", "")

\* _build_vega_charts: one chart per non-empty list among these
ChartKeys == {"stats_by_region", "commodity_stats", "importance_breakdown", "heatmap_bins"}
_build_vega_charts(arts) == Cardinality({k \in ChartKeys : Truthy(k, arts)})
WithCharts(arts) ==
    IF _build_vega_charts(arts) > 0
    THEN [arts EXCEPT !["charts"] = [present |-> TRUE, rows |-> _build_vega_charts(arts), gen |-> 0]]
    ELSE arts

OfflineKeys == <<"qc_summary", "ogc_items_url", "qgis_instructions", "spatial_total",
                 "spatial_nearest", "geojson", "csv">>
FallbackKeys == <<"qc_summary", "commodity_stats", "stats_by_region", "importance_breakdown",
                  "heatmap_bins", "charts", "ogc_items_url">>

\* `artifacts.get("spatial_total") is not None` for that key, truthiness for the others
BitTest(key, arts) == IF key = "spatial_total" THEN In(key, arts) ELSE Truthy(key, arts)

RECURSIVE Bits(_, _)
Bits(keys, arts) ==
    IF Len(keys) = 0 THEN <<>>
    ELSE (IF BitTest(Head(keys), arts) THEN <<Bit(Head(keys))>> ELSE <<>>) \o Bits(Tail(keys), arts)

\* the deterministic summary of offline mode
OfflineSummary(arts) ==
    LET bits == Bits(OfflineKeys, arts)
    IN IF Len(bits) > 0 THEN bits ELSE <<OFFLINE_NONE>>

\* the deterministic summary used when the LLM summary failed
FallbackSummary(arts) == <<UNAVAILABLE>> \o Bits(FallbackKeys, arts)

\* IsSentinel testing the timeout prefix only
IsSentinelTimeoutOnly(text) == StartsWith(text, TIMED_OUT)
IsSentinel(text) == StartsWith(text, TIMED_OUT) \/ StartsWith(text, LLM_ERROR)

\* SUMMARIZE: rag_retrieve, charts, then the offline or the LLM summary
WorkflowSummarize ==
    /\ UNCHANGED side
    /\ pc = "executing_plan" /\ entry = "workflow"
    /\ step >= Len(StepsToRun)
    /\ \E occs \in {0, 2} :
          last_occurrences' = IF occs > 0 /\ last_occurrences <= 0 THEN occs ELSE last_occurrences
    /\ artifacts' = WithCharts(artifacts)
    /\ IF ~use_llm
       THEN /\ Returned(sanitize_text(OfflineSummary(artifacts')))
            /\ UNCHANGED <<llm_calls, model_out>>
       ELSE \E text \in ProseTexts :
            /\ llm_calls' = llm_calls + 1
            /\ model_out' = text
            /\ Returned(sanitize_text(IF IsSentinel(text) THEN FallbackSummary(artifacts') ELSE text))
    /\ UNCHANGED <<inputs, step, cur, tool_trace, seen_calls, scratchpad, plan_steps, executed, writes>>

NextWorkflow == WorkflowPlan \/ WorkflowStep \/ WorkflowSummarize

Next == NextAgent \/ NextWorkflow

Spec == Init /\ [][Next]_vars

\* POST /agent/: run_agent, then the reply
InitEndpoint == Init /\ entry = "agent"
NextEndpoint == NextAgent \/ AgentRespond
SpecEndpoint == InitEndpoint /\ [][NextEndpoint]_vars


\* ------------------------------------------- the session store, called alone
AppendMemory ==
    /\ Len(chat_log.mem) < MaxAppends
    /\ \E m \in NextMessages("mem") : append_message(m)
    /\ UNCHANGED <<vars_invocation, clamp, jobs, uploads, _EXEC, llm_req>>
AppendDb ==
    /\ Len(chat_log.db) < MaxAppends
    /\ \E m \in NextMessages("db") : append_message_db(m)
    /\ UNCHANGED <<vars_invocation, clamp, jobs, uploads, _EXEC, llm_req>>

InitChat ==
    /\ InvocationIdle /\ flags = [strict |-> FALSE, on |-> {}] /\ ClampIdle /\ JobsIdle /\ LlmIdle
    /\ _store = <<>> /\ agent_sessions = NoRow /\ chat_req = <<>>
    /\ chat_log = [mem |-> <<>>, db |-> <<>>, last |-> [store |-> "", content |-> <<>>]]
NextChat == AppendMemory \/ AppendDb
SpecChat == InitChat /\ [][NextChat]_vars

\* ---------------------------------- append_message_db under concurrent requests
\* Each request has its own database session; nothing locks the row between the SELECT
\* of _get_or_create_db_session and the UPDATE of db.commit().
Requests == 1..2
\* the history a session has when the requests arrive
History(n) == [i \in 1..n |-> ChatMessage(i)]
InitialHistories == {0, 1, 39, 40, 41}
NoLocal == <<>>
Request(at, m, s) == [pc |-> at, m |-> m, s |-> s]

\* lines 90-92 and 66: return on empty content, else SELECT the row
DbSelect(p) ==
    /\ chat_req[p].pc = "start"
    /\ LET r == chat_req[p]
       IN chat_req' = [chat_req EXCEPT ![p] =
             IF Len(r.m.content) = 0 THEN Request("done", r.m, NoLocal)
             ELSE IF agent_sessions.exists THEN Request("loaded", r.m, agent_sessions.messages)
             ELSE Request("missing", r.m, NoLocal)]
    /\ chat_log' = IF Len(chat_req[p].m.content) = 0 THEN Logged("db", chat_req[p].m) ELSE chat_log
    /\ UNCHANGED <<agent_sessions, _store, vars_invocation, clamp, jobs, uploads, _EXEC, llm_req>>
\* lines 67-70: INSERT the row; the primary key refuses a second row of the session
DbCreate(p) ==
    /\ chat_req[p].pc = "missing"
    /\ IF agent_sessions.exists
       THEN /\ chat_req' = [chat_req EXCEPT ![p].pc = "raised"]
            /\ UNCHANGED agent_sessions
       ELSE /\ chat_req' = [chat_req EXCEPT ![p].pc = "created"]
            /\ agent_sessions' = [exists |-> TRUE, messages |-> <<>>]
    /\ UNCHANGED <<chat_log, _store, vars_invocation, clamp, jobs, uploads, _EXEC, llm_req>>
\* line 71: db.refresh(s)
DbRefresh(p) ==
    /\ chat_req[p].pc = "created"
    /\ chat_req' = [chat_req EXCEPT ![p] = Request("loaded", @.m, agent_sessions.messages)]
    /\ UNCHANGED <<agent_sessions, chat_log, _store, vars_invocation, clamp, jobs, uploads, _EXEC, llm_req>>
\* lines 93-100: the list read earlier, plus the message, is written back
DbCommit(p) ==
    /\ chat_req[p].pc = "loaded"
    /\ agent_sessions' = [exists |-> TRUE, messages |-> Appended(chat_req[p].s, chat_req[p].m)]
    /\ chat_req' = [chat_req EXCEPT ![p].pc = "done"]
    /\ chat_log' = Logged("db", chat_req[p].m)
    /\ UNCHANGED <<_store, vars_invocation, clamp, jobs, uploads, _EXEC, llm_req>>

InitChatRace ==
    /\ InvocationIdle /\ flags = [strict |-> FALSE, on |-> {}] /\ ClampIdle /\ JobsIdle /\ LlmIdle
    /\ _store = <<>>
    /\ \E n \in InitialHistories, row \in BOOLEAN :
          /\ n > 0 => row
          /\ agent_sessions = [exists |-> row, messages |-> LastOf(History(n), KeepLast)]
          /\ chat_log = [mem |-> <<>>, db |-> History(n), last |-> [store |-> "", content |-> <<>>]]
    /\ chat_req \in [Requests -> {Request("start", [role |-> "user", content |-> c], NoLocal) :
                                     c \in {<<>>, <<101>>, <<102>>}}]
    /\ chat_req[1].m.content # <<102>> /\ chat_req[2].m.content # <<101>>
NextChatRace ==
    \E p \in Requests : DbSelect(p) \/ DbCreate(p) \/ DbRefresh(p) \/ DbCommit(p)
SpecChatRace == InitChatRace /\ [][NextChatRace]_vars

\* ------------------------------------- append_message under concurrent callers
\* Two threads call append_message for one session. `msgs` is a reference: while the
\* dict still holds the list a caller fetched, its append is seen through the dict
\* (bound); once another caller has rebound the key, the caller is left with the old
\* list (s). With two callers the old list has a single holder.
MemRequest(at, m, bound, s) == [pc |-> at, m |-> m, bound |-> bound, s |-> s]
\* the list behind a caller's `msgs`
ListOf(p) == IF chat_req[p].bound THEN _store ELSE chat_req[p].s
ExceedsAlways(msgs) == TRUE
\* line 42: len(msgs) > 40
Exceeds(msgs) == Len(msgs) > KeepLast

\* lines 37-39: return on empty content, else msgs = _store.setdefault(session_id, [])
MemGet(p) ==
    /\ chat_req[p].pc = "start"
    /\ chat_req' = [chat_req EXCEPT ![p] =
          IF Len(@.m.content) = 0 THEN MemRequest("done", @.m, FALSE, NoLocal)
          ELSE MemRequest("got", @.m, TRUE, NoLocal)]
    /\ chat_log' = IF Len(chat_req[p].m.content) = 0 THEN Logged("mem", chat_req[p].m) ELSE chat_log
    /\ UNCHANGED <<_store, agent_sessions, vars_invocation, clamp, jobs, uploads, _EXEC, llm_req>>
\* line 40: msgs.append(...)
MemAppend(p) ==
    /\ chat_req[p].pc = "got"
    /\ IF chat_req[p].bound
       THEN /\ _store' = Append(_store, chat_req[p].m)
            /\ chat_req' = [chat_req EXCEPT ![p].pc = "appended"]
       ELSE /\ chat_req' = [chat_req EXCEPT ![p].pc = "appended", ![p].s = Append(@, chat_req[p].m)]
            /\ UNCHANGED _store
    /\ chat_log' = Logged("mem", chat_req[p].m)
    /\ UNCHANGED <<agent_sessions, vars_invocation, clamp, jobs, uploads, _EXEC, llm_req>>
\* line 42: the test
MemLen(p) ==
    /\ chat_req[p].pc = "appended"
    /\ chat_req' = [chat_req EXCEPT ![p].pc = IF Exceeds(ListOf(p)) THEN "long" ELSE "done"]
    /\ UNCHANGED <<_store, agent_sessions, chat_log, vars_invocation, clamp, jobs, uploads, _EXEC, llm_req>>
\* line 43, right-hand side: msgs[-40:] is a new list
MemSlice(p) ==
    /\ chat_req[p].pc = "long"
    /\ chat_req' = [chat_req EXCEPT ![p] = MemRequest("sliced", @.m, FALSE, LastOf(ListOf(p), KeepLast))]
    /\ UNCHANGED <<_store, agent_sessions, chat_log, vars_invocation, clamp, jobs, uploads, _EXEC, llm_req>>
\* line 43, the assignment: the key is rebound; a caller that fetched the list before
\* keeps the old one
MemStore(p) ==
    /\ chat_req[p].pc = "sliced"
    /\ _store' = chat_req[p].s
    /\ chat_req' = [q \in Requests |->
          IF q = p THEN MemRequest("done", chat_req[p].m, FALSE, NoLocal)
          ELSE IF chat_req[q].bound THEN MemRequest(chat_req[q].pc, chat_req[q].m, FALSE, _store)
          ELSE chat_req[q]]
    /\ UNCHANGED <<agent_sessions, chat_log, vars_invocation, clamp, jobs, uploads, _EXEC, llm_req>>

InitMemRace ==
    /\ InvocationIdle /\ flags = [strict |-> FALSE, on |-> {}] /\ ClampIdle /\ JobsIdle /\ LlmIdle
    /\ agent_sessions = NoRow
    /\ \E n \in InitialHistories :
          /\ _store = LastOf(History(n), KeepLast)
          /\ chat_log = [mem |-> History(n), db |-> <<>>, last |-> [store |-> "", content |-> <<>>]]
    /\ chat_req \in [Requests -> {MemRequest("start", [role |-> "user", content |-> c], FALSE, NoLocal) :
                                     c \in {<<>>, <<101>>, <<102>>}}]
    /\ chat_req[1].m.content # <<102>> /\ chat_req[2].m.content # <<101>>
NextMemRace ==
    \E p \in Requests : MemGet(p) \/ MemAppend(p) \/ MemLen(p) \/ MemSlice(p) \/ MemStore(p)
SpecMemRace == InitMemRace /\ [][NextMemRace]_vars

\* --------------------------------------------------- the clamp helpers, called alone
\* values a caller passes as v: numbers inside and outside the range, numeric and other
\* strings, None
ClampInputs ==
    {IntV(-5), IntV(5), IntV(999), FloatV(57), FloatV(-12), StrV("5"), StrV("abc"), None}
ClampLimits == {1, 10, 200}
ClampDefaults == {0, 5, 50}

InitClamp ==
    /\ InvocationIdle /\ flags = [strict |-> FALSE, on |-> {}] /\ ChatIdle /\ JobsIdle /\ LlmIdle
    /\ \E fn \in {"_clamp_int", "_clamp_float"}, v \in ClampInputs, lo \in ClampLimits,
          hi \in ClampLimits, default \in ClampDefaults :
          clamp = [fn |-> fn, v |-> v, lo |-> lo, hi |-> hi, default |-> default,
                   done |-> FALSE, out |-> 0]
\* the call returns
ClampApply ==
    /\ ~clamp.done
    /\ clamp' = [clamp EXCEPT !.done = TRUE,
                              !.out = IF clamp.fn = "_clamp_int"
                                      THEN _clamp_int(clamp.v, clamp.lo, clamp.hi, clamp.default)
                                      ELSE _clamp_float(clamp.v, clamp.lo, clamp.hi, clamp.default)]
    /\ UNCHANGED <<vars_invocation, _store, agent_sessions, chat_log, chat_req, jobs, uploads, _EXEC, llm_req>>
SpecClamp == InitClamp /\ [][ClampApply]_vars

\* ------------------------------------------------ raster uploads and their jobs
\* the upload requests served
MaxUploads == 3
NoUpload == [pc |-> "start", job |-> 0, task |-> "none"]

\* create_job: a new row, status "pending"; the job id is the row's place in the table
create_job(js) == Append(js, "pending")
SetEveryJobStatus(js, job_id, status) == [i \in DOMAIN js |-> status]
\* set_job_status: nothing when the job is not found
set_job_status(js, job_id, status) ==
    IF job_id \notin DOMAIN js THEN js ELSE [js EXCEPT ![job_id] = status]

\* upload_raster up to its await: the governance gate, then create_job
UploadCreate(r) ==
    /\ uploads[r].pc = "start"
    /\ IF ~feature_enabled(flags, "rasters")
       THEN /\ uploads' = [uploads EXCEPT ![r].pc = "refused"]
            /\ UNCHANGED jobs
       ELSE /\ jobs' = create_job(jobs)
            /\ uploads' = [uploads EXCEPT ![r].pc = "created", ![r].job = Len(jobs) + 1]
    /\ UNCHANGED <<vars_invocation, _store, agent_sessions, chat_log, chat_req, clamp, _EXEC, llm_req>>
\* file.read() and save_raster_bytes, which may raise; then add_task and the response
UploadRespond(r) ==
    /\ uploads[r].pc = "created"
    /\ \E saved \in BOOLEAN :
          uploads' = [uploads EXCEPT ![r].pc = IF saved THEN "responded" ELSE "error",
                                     ![r].task = IF saved THEN "queued" ELSE "none"]
    /\ UNCHANGED <<jobs, vars_invocation, _store, agent_sessions, chat_log, chat_req, clamp, _EXEC, llm_req>>
\* _job_background_compute_metadata, line 38
TaskStart(r) ==
    /\ uploads[r].task = "queued"
    /\ jobs' = set_job_status(jobs, uploads[r].job, "running")
    /\ uploads' = [uploads EXCEPT ![r].task = "reading"]
    /\ UNCHANGED <<vars_invocation, _store, agent_sessions, chat_log, chat_req, clamp, _EXEC, llm_req>>
\* lines 39-44: read_raster_metadata returns or raises
TaskFinish(r) ==
    /\ uploads[r].task = "reading"
    /\ \E read \in BOOLEAN :
          jobs' = set_job_status(jobs, uploads[r].job, IF read THEN "succeeded" ELSE "failed")
    /\ uploads' = [uploads EXCEPT ![r].task = "done"]
    /\ UNCHANGED <<vars_invocation, _store, agent_sessions, chat_log, chat_req, clamp, _EXEC, llm_req>>

InitJobs ==
    /\ InvocationIdle /\ flags \in FlagSets /\ ChatIdle /\ ClampIdle /\ LlmIdle
    /\ jobs = <<>>
    /\ uploads = [r \in 1..MaxUploads |-> NoUpload]
NextJobs ==
    \E r \in 1..MaxUploads : UploadCreate(r) \/ UploadRespond(r) \/ TaskStart(r) \/ TaskFinish(r)
SpecJobs == InitJobs /\ [][NextJobs]_vars
\* --------------------------------------- generate_response and its executor
\* LLM_TIMEOUT_SEC, counted in ticks of the clock
LlmTimeout == 2
\* what the LLM request of a call does once the worker runs it: it answers or raises
\* within one tick, or it stalls for longer than two timeouts
LlmKinds == {"prompt", "error", "stalled"}
Duration(kind) == IF kind = "stalled" THEN 2 * LlmTimeout + 1 ELSE 1
LlmCall(at, kind, disabled, waited, done) ==
    [pc |-> at, kind |-> kind, disabled |-> disabled, waited |-> waited, done |-> done]
\* fut.result(timeout) has something to return or to raise
Due(p) == llm_req[p].pc = "waiting" /\ (llm_req[p].done \/ llm_req[p].waited >= LlmTimeout)

\* lines 25-33: the LLM_DISABLED text, else _EXEC.submit(_call); the single worker
\* runs the submitted calls one at a time, in order
LlmSubmit(p) ==
    /\ llm_req[p].pc = "idle"
    /\ IF llm_req[p].disabled
       THEN /\ llm_req' = [llm_req EXCEPT ![p].pc = "disabled"]
            /\ UNCHANGED _EXEC
       ELSE /\ llm_req' = [llm_req EXCEPT ![p].pc = "waiting"]
            /\ _EXEC' = Append(_EXEC, [id |-> p, left |-> Duration(llm_req[p].kind)])
    /\ UNCHANGED <<vars_invocation, _store, agent_sessions, chat_log, chat_req, clamp, jobs, uploads>>
\* time passes: the worker goes on with the call it runs (line 31), whether or not its
\* caller still waits, and takes the next one when it is through; the callers wait
LlmTick ==
    /\ _EXEC # <<>>
    /\ \A p \in Requests : ~Due(p)
    /\ LET head == _EXEC[1]
           through == head.left = 1
       IN /\ _EXEC' = IF through THEN Tail(_EXEC) ELSE [_EXEC EXCEPT ![1].left = @ - 1]
          /\ llm_req' = [p \in Requests |->
                LlmCall(llm_req[p].pc, llm_req[p].kind, llm_req[p].disabled,
                        IF llm_req[p].pc = "waiting" THEN llm_req[p].waited + 1 ELSE llm_req[p].waited,
                        llm_req[p].done \/ (through /\ head.id = p))]
    /\ UNCHANGED <<vars_invocation, _store, agent_sessions, chat_log, chat_req, clamp, jobs, uploads>>
\* lines 35 and 41-42: the future is done; its result, or "LLM error: ..."
LlmResult(p) ==
    /\ llm_req[p].pc = "waiting" /\ llm_req[p].done
    /\ llm_req' = [llm_req EXCEPT ![p].pc = IF llm_req[p].kind = "error" THEN "error" ELSE "answered"]
    /\ UNCHANGED <<_EXEC, vars_invocation, _store, agent_sessions, chat_log, chat_req, clamp, jobs, uploads>>
\* lines 36-40: the timeout passed before the future was done; the call stays with the
\* executor
LlmTimedOut(p) ==
    /\ llm_req[p].pc = "waiting" /\ ~llm_req[p].done /\ llm_req[p].waited >= LlmTimeout
    /\ llm_req' = [llm_req EXCEPT ![p].pc = "timed_out"]
    /\ UNCHANGED <<_EXEC, vars_invocation, _store, agent_sessions, chat_log, chat_req, clamp, jobs, uploads>>

InitLlm ==
    /\ InvocationIdle /\ flags = [strict |-> FALSE, on |-> {}] /\ ChatIdle /\ ClampIdle /\ JobsIdle
    /\ _EXEC = <<>>
    /\ llm_req \in [Requests -> {LlmCall("idle", k, d, 0, FALSE) : k \in LlmKinds, d \in BOOLEAN}]
NextLlm ==
    \/ \E p \in Requests : LlmSubmit(p) \/ LlmResult(p) \/ LlmTimedOut(p)
    \/ LlmTick
SpecLlm == InitLlm /\ [][NextLlm]_vars

\* ------------------------------------------------------------- properties
\* a count of the control steps an invocation has left, from its position and the
\* iterations or plan steps that remain
Measure ==
    IF entry = "agent"
    THEN CASE pc = "routing" -> 3 * max_steps + 5
           [] pc = "prompting" -> 3 * (max_steps - step) + 3
           [] pc = "executing" -> 3 * (max_steps - step) + 5
           [] pc = "synth" -> 2
           [] pc = "grounding" -> 1
           [] OTHER -> 0
    ELSE CASE pc = "planning" -> max_steps + 2
           [] pc = "executing_plan" -> (Len(StepsToRun) - step) + 1
           [] OTHER -> 0

C2_ToolCallExtracted ==
    [][(entry = "agent" /\ pc = "prompting" /\ pc' # "raised") =>
          LET text == model_out'
              start == Find(text, LB)
              end == RFind(text, RB)
              obj == IF start = -1 \/ end = -1 \/ end <= start THEN NoObject
                     ELSE JsonLoads(Slice(text, start, end))
          IN IF obj.ok /\ "action" \in obj.keys
             THEN IF obj.val["action"] = "final"
                  THEN \/ pc' = "grounding"
                       \/ pc' = "returned" /\ result'.answer = <<Tok("str", "", obj.val["answer"])>>
                  ELSE /\ pc' = "executing"
                       /\ cur'.action = obj.val["action"]
                       /\ cur'.args = (IF "args" \in obj.keys THEN ArgsOf(obj.val["args"]) ELSE EmptyDict)
             ELSE pc' \in {"returned", "synth"}]_vars

C4_ArtifactWrittenOnce == entry = "agent" => \A k \in ArtifactKeys : writes[k] <= 1

\* C5: an exception of a tool executor during EXECUTING is caught: the step appends
\* exactly one {tool, args, error} trace entry, writes no artifact, does not end the
\* invocation, and goes to the next PROMPTING iteration when steps remain.
C5_ToolErrorCaught ==
    [][(entry = "agent" /\ pc = "executing" /\ Len(executed') = Len(executed) + 1) =>
          /\ pc' # "raised"
          /\ Len(tool_trace') = Len(tool_trace) + 1
          /\ SubSeq(tool_trace', 1, Len(tool_trace)) = tool_trace
          /\ LET e == tool_trace'[Len(tool_trace')]
             IN \/ e.error = "" /\ e.tool = cur.action
                \/ /\ e.error = EXCEPTION /\ e.tool = cur.action
                   /\ e.args = executed'[Len(executed')].args
                   /\ artifacts' = artifacts /\ writes' = writes
                   /\ result' = result
                   /\ pc' = (IF step < max_steps THEN "prompting" ELSE "synth")]_vars

\* C5 witness: a failed call is in the trace and the loop is prompting again
C5_LoopContinuedAfterError ==
    /\ entry = "agent" /\ pc = "prompting" /\ step >= 1 /\ Len(executed) >= 1
    /\ Len(tool_trace) >= 1 /\ tool_trace[Len(tool_trace)].error = EXCEPTION
    /\ \A k \in ArtifactKeys : writes[k] = 0

\* C6: no exception of a tool or of the LLM collaborator leaves run_agent or run_workflow
C6_NothingPropagates == pc # "raised"

C8_RefusalPropagates == \A j \in 1..Len(tool_trace) : tool_trace[j].error # POLICY

C10_SentinelNotReturned ==
    (entry = "agent" /\ pc = "returned") => ~IsSentinel(result.answer)


C12_UnknownToolStops ==
    [][entry = "agent" =>
          LET start == Find(model_out', LB)
              end == RFind(model_out', RB)
              obj == IF start = -1 \/ end = -1 \/ end <= start THEN NoObject
                     ELSE JsonLoads(Slice(model_out', start, end))
              unknowns(tr) == Cardinality({i \in 1..Len(tr) : tr[i].tool = "unknown"})
          IN /\ (pc = "prompting" /\ pc' # "raised" /\ obj.ok /\ "action" \in obj.keys
                 /\ obj.val["action"] \notin AgentTools(variant) \cup {"final"})
                => pc' = "executing" /\ cur'.action = obj.val["action"]
             /\ (pc = "executing" /\ cur.action \notin AgentTools(variant))
                => /\ pc' = "returned" /\ result'.kind = "tuple"
                   /\ Len(tool_trace') = Len(tool_trace) + 1
                   /\ unknowns(tool_trace') = 1
                   /\ executed' = executed /\ llm_calls' = llm_calls
             /\ unknowns(tool_trace') # unknowns(tool_trace)
                => pc = "executing" /\ cur.action \notin AgentTools(variant)]_vars


\* C13: the plan run_workflow returns has at most max_steps steps, whether it comes
\* from the keyword rules (any number of matching categories) or from the LLM.
C13_PlanWithinMaxSteps ==
    (entry = "workflow" /\ pc = "returned" /\ result.kind = "tuple")
        => Len(plan_steps) <= max_steps


\* C14: after any sequence of append_message / append_message_db calls on a session the
\* stored list holds at most 40 messages, exactly the most recent non-empty messages in
\* the order of their appends; an append with empty content leaves the stored messages
\* unchanged.
C14_LastFortyKept ==
    /\ [](/\ Len(_store) <= 40 /\ Len(agent_sessions.messages) <= 40
          /\ _store = LastOf(chat_log.mem, 40)
          /\ agent_sessions.messages = LastOf(chat_log.db, 40)
          /\ \A i \in 1..Len(chat_log.mem) : chat_log.mem[i].content = <<i>>
          /\ \A i \in 1..Len(chat_log.db) : chat_log.db[i].content = <<i>>)
    /\ [][chat_log'.last.content = <<>> => (_store' = _store /\ agent_sessions' = agent_sessions)]_vars
\* both stores have dropped their oldest messages, and an empty append has just been made
C14_OldestDropped ==
    /\ Len(chat_log.mem) > 40 /\ Len(_store) = 40 /\ _store[1].content = <<Len(chat_log.mem) - 39>>
    /\ Len(chat_log.db) > 40 /\ Len(agent_sessions.messages) = 40
    /\ agent_sessions.messages[40].content = <<Len(chat_log.db)>>
    /\ chat_log.last.content = <<>>


\* C15: append_message_db is atomic per call: when two requests of one session each
\* append a message concurrently, both messages are in the stored history once both
\* calls have completed, whatever the interleaving.
C15_BothAppendsKept ==
    (\A p \in DOMAIN chat_req : chat_req[p].pc = "done")
        => \A p \in DOMAIN chat_req :
              Len(chat_req[p].m.content) > 0
                  => \E i \in 1..Len(agent_sessions.messages) :
                        agent_sessions.messages[i].content = chat_req[p].m.content


\* C16: _clamp_int and _clamp_float never raise and, for lo <= hi, return a value inside
\* [lo, hi]: the parsed value clamped, or the default, clamped, when v cannot be parsed.
C16_ClampedIntoRange ==
    (clamp.done /\ clamp.lo <= clamp.hi)
        => LET p == IF clamp.fn = "_clamp_int" THEN PyInt(clamp.v) ELSE PyFloat(clamp.v)
               n == IF p.ok THEN p.n ELSE clamp.default
           IN /\ clamp.lo <= clamp.out /\ clamp.out <= clamp.hi
              /\ clamp.out = (IF n < clamp.lo THEN clamp.lo ELSE IF n > clamp.hi THEN clamp.hi ELSE n)


\* C17: the job of a raster upload exists with status "pending" before the upload
\* response returns; its status is always one of pending, running, succeeded, failed, and
\* changes only along pending -> running -> succeeded | failed: never backward, never
\* after succeeded or failed.
C17_JobStatusForward ==
    /\ [](\A j \in DOMAIN jobs : jobs[j] \in {"pending", "running", "succeeded", "failed"})
    /\ [][/\ \A r \in DOMAIN uploads :
                (uploads[r].pc # "responded" /\ uploads'[r].pc = "responded")
                    => /\ uploads'[r].job \in DOMAIN jobs
                       /\ jobs[uploads'[r].job] = "pending" /\ jobs'[uploads'[r].job] = "pending"
          /\ \A j \in DOMAIN jobs :
                /\ j \in DOMAIN jobs'
                /\ jobs'[j] # jobs[j]
                    => <<jobs[j], jobs'[j]>> \in {<<"pending", "running">>, <<"running", "succeeded">>,
                                                  <<"running", "failed">>}]_vars
\* one job has succeeded, another has failed, a third is still pending after its response
C17_JobsInEveryStatus ==
    /\ Len(jobs) = 3
    /\ \E a, b, c \in DOMAIN jobs :
          jobs[a] = "succeeded" /\ jobs[b] = "failed" /\ jobs[c] = "pending"
    /\ \E r \in DOMAIN uploads : uploads[r].pc = "responded" /\ jobs[uploads[r].job] = "pending"


\* C18: a tool the LLM proposes is executed, and after a successful call control
\* returns to PROMPTING while iterations remain, so that with max_steps >= 2 one
\* invocation can run a tool and then receive "final", or run a second tool.
C18_LoopContinuesAfterTool ==
    [][entry = "agent" =>
          LET start == Find(model_out', LB)
              end == RFind(model_out', RB)
              obj == IF start = -1 \/ end = -1 \/ end <= start THEN NoObject
                     ELSE JsonLoads(Slice(model_out', start, end))
          IN /\ (pc = "prompting" /\ pc' # "raised" /\ obj.ok /\ "action" \in obj.keys
                 /\ obj.val["action"] \in AgentTools(variant))
                => pc' = "executing"
             /\ (pc = "executing" /\ Len(executed') = Len(executed) + 1
                 /\ Len(tool_trace') = Len(tool_trace) + 1
                 /\ tool_trace'[Len(tool_trace')].error = "" /\ step < max_steps)
                => pc' = "prompting"]_vars


\* C19: a proposed call whose signature (tool name and normalized args) equals a call
\* already attempted in this invocation, whether it succeeded or failed, is not
\* dispatched and ends the loop; no executor is invoked twice with the same normalized
\* args.
C19_NoRepeatedCall ==
    /\ [](entry = "agent" =>
             \A i, j \in 1..Len(executed) :
                (executed[i].tool = executed[j].tool /\ executed[i].args = executed[j].args) => i = j)
    /\ [][(/\ entry = "agent" /\ pc = "executing"
           /\ LET args == IF variant = "backend" THEN AgentNormalize(cur.action, cur.args).args
                          ELSE cur.args
              IN \E i \in 1..Len(executed) :
                    executed[i].tool = cur.action /\ executed[i].args = args)
          => /\ executed' = executed /\ artifacts' = artifacts
             /\ pc' = "synth" /\ llm_calls' = llm_calls]_vars
\* the call that failed in the first iteration was proposed again and the loop stopped
C19_RepeatStopped ==
    /\ entry = "agent" /\ pc = "synth" /\ step = 2 /\ Len(executed) = 1
    /\ cur.action = executed[1].tool /\ cur.args = executed[1].args
    /\ Len(tool_trace) = 2 /\ tool_trace[1].error = EXCEPTION
    /\ tool_trace[2].tool = "loop_detected"


\* C20: on every path -- LLM-proposed calls, the uploaded-geometry fast paths of
\* run_agent, the plan steps of run_workflow (ogc_items_link included) -- the executor of
\* a tool with a gated prefix (qc_, spatial_, rasters_, ogc_) runs only when
\* feature_enabled holds for its feature.
C20_GatedBeforeDispatch ==
    \A i \in 1..Len(executed) :
       LET tool == executed[i].tool
           feature == CASE tool \in QcNames -> "qc"
                        [] tool \in SpatialNames -> "spatial"
                        [] tool \in RasterNames -> "rasters"
                        [] tool = "ogc_items_link" -> "ogc"
                        [] OTHER -> ""
       IN feature # "" => feature_enabled(flags, feature)


C22_AtMostTwoLlmCalls ==
    /\ [](entry = "workflow" =>
             /\ llm_calls <= 2
             /\ ~use_llm => llm_calls = 0
             /\ pc = "planning" => llm_calls = 0
             /\ pc = "executing_plan" => llm_calls <= 1
             /\ (llm_calls = 2 \/ (llm_calls = 1 /\ pc = "executing_plan"))
                   => Len(DeterministicPlan(query, uploaded, uploaded_fc)) = 0)
    /\ [][(entry = "workflow" /\ llm_calls' # llm_calls) =>
             /\ llm_calls' = llm_calls + 1 /\ use_llm
             /\ \/ pc = "planning" /\ Len(DeterministicPlan(query, uploaded, uploaded_fc)) = 0
                \/ pc = "executing_plan" /\ step = Len(StepsToRun) /\ pc' = "returned"]_vars
\* an invocation that asked the LLM for its plan and for its summary
C22_PlannedAndSummarizedByLlm ==
    /\ entry = "workflow" /\ pc = "returned" /\ use_llm /\ llm_calls = 2
    /\ Len(plan_steps) >= 1 /\ Len(executed) >= 1


\* C23: in run_workflow with use_llm, when the summary LLM call returns a failure
\* sentinel, the answer reports the same artifacts as the deterministic summary that
\* use_llm = FALSE produces for the same artifacts.
C23_FallbackMatchesOffline ==
    (/\ entry = "workflow" /\ pc = "returned" /\ use_llm
     /\ Len(model_out) > 0 /\ model_out[1] \in {TIMED_OUT, LLM_ERROR}
     /\ llm_calls = (IF Len(DeterministicPlan(query, uploaded, uploaded_fc)) = 0 THEN 2 ELSE 1))
        => LET offline == OfflineSummary(artifacts)
               reported(answer) == {answer[i].k : i \in {j \in 1..Len(answer) : answer[j].t = "bit"}}
           IN reported(result.answer) = reported(offline)


\* C24: for the same action and the same raw args, the step execution of run_workflow
\* hands the executor the argument map that the guard rails of run_agent's EXECUTING
\* state would produce.
C24_SameNormalizationOnBothPaths ==
    [][(entry = "workflow" /\ pc = "executing_plan" /\ Len(executed') = Len(executed) + 1) =>
          LET st == StepsToRun[step + 1]
              guarded == AgentNormalize(st.action, st.args)
          IN /\ guarded.exc = ""
             /\ executed'[Len(executed')].args = guarded.args]_vars


\* C25: run_agent evaluates its deterministic rules in the fixed priority order and the
\* first match wins: with an uploaded AOI, "buffer" is routed to the buffer tool ahead of
\* "nearest" / "closest", the uploaded-AOI rules come before the region + commodity +
\* mine rule, and exactly one deterministic tool runs per invocation.
C25_RulesInPriorityOrder ==
    /\ [](entry = "agent" =>
             Cardinality({i \in 1..Len(executed) : executed[i].path = "fast"}) <= 1)
    /\ [][(entry = "agent" /\ pc = "routing" /\ uploaded) =>
             /\ "buffer" \in query
                   => (Len(executed') = 1 /\ executed'[1].tool = "spatial_buffer")
             /\ ("buffer" \notin query /\ ("nearest" \in query \/ "closest" \in query))
                   => (Len(executed') = 1 /\ executed'[1].tool = "spatial_nearest")]_vars

\* C26: two concurrent append_message calls on one session of the in-memory store can
\* lose a message, and only where the list exceeds 40 entries and is replaced by its
\* last-40 slice: once both calls have returned, a message that was appended is absent
\* from the stored list only if more than 40 messages had been appended to the session.
C26_LossOnlyAtTruncation ==
    (\A p \in DOMAIN chat_req : chat_req[p].pc = "done" /\ "bound" \in DOMAIN chat_req[p])
    => \/ \A p \in DOMAIN chat_req :
             Len(chat_req[p].m.content) > 0 => \E i \in 1..Len(_store) : _store[i] = chat_req[p].m
       \/ Len(chat_log.mem) > KeepLast
\* both calls appended and returned, and one of the two messages is not in the list
C26_MessageLost ==
    /\ DOMAIN chat_req = Requests
    /\ \A p \in Requests :
          chat_req[p].pc = "done" /\ "bound" \in DOMAIN chat_req[p] /\ Len(chat_req[p].m.content) > 0
    /\ \E p \in Requests : \A i \in 1..Len(_store) : _store[i] # chat_req[p].m
    /\ \E p \in Requests : \E i \in 1..Len(_store) : _store[i] = chat_req[p].m

\* C27: when run_agent or run_workflow returns, every tool execution that assigned an
\* artifact key, the deterministic fast paths included, has an entry in tool_trace, and
\* the entries are in execution order: the executions that wrote the artifacts present
\* at return each have an entry under their name, and entries of different executions
\* appear in the order the executions ran.
C27_EveryPopulatingToolTraced ==
    pc = "returned" =>
       /\ \A key \in ArtifactKeys :
             In(key, artifacts) =>
                \E i \in 1..Len(tool_trace) :
                   tool_trace[i].tool \in
                      {executed[artifacts[key].gen].tool,
                       IF executed[artifacts[key].gen].path = "fast" THEN "auto_geojson_export" ELSE ""}
       /\ Len(tool_trace) <= Len(executed) + step

\* C28: once a POST /agent/ request with a non-empty query has completed, the stored
\* history of its session alternates user, assistant, ... and its last two messages
\* are the request's query followed by the answer that was returned, whatever the LLM
\* returned.
C28_HistoryAlternates ==
    (entry = "agent" /\ pc = "returned" /\ chat_log.last.content # UserMessage(query).content)
    => LET msgs == agent_sessions.messages
       IN /\ \A i \in 1..Len(msgs) : msgs[i].role = (IF i % 2 = 1 THEN "user" ELSE "assistant")
          /\ Len(msgs) >= 2
          /\ msgs[Len(msgs) - 1] = UserMessage(query)
          /\ msgs[Len(msgs)] = [role |-> "assistant", content |-> result.answer]

\* C29: when two requests make the first access to one new session at the same time,
\* the lazy creation of its agent_sessions row is safe: the row is created once and
\* neither call fails.
C29_LazyCreationNeverFails ==
    \A p \in DOMAIN chat_req : chat_req[p].pc # "raised"

\* C30: with the single-worker executor, a stalled LLM call of one request does not make
\* the LLM calls of other requests fail: a generate_response call whose own LLM request
\* answers promptly returns that answer, never the timeout text, also while an earlier
\* timed-out call still occupies the worker.
C30_PromptCallIsAnswered ==
    \A p \in DOMAIN llm_req :
       (llm_req[p].kind = "prompt" /\ ~llm_req[p].disabled) => llm_req[p].pc # "timed_out"

====
